---- MODULE Spec2Model ----
(***************************************************************************)
(* A model of the DDS/RTPS coordination core of RustDDS:                   *)
(*   - the per-topic sample cache (src/src/structure/dds_cache.rs)         *)
(*   - the discovery event loop   (src/src/discovery/discovery.rs)         *)
(* Timestamps and Durations are natural numbers of clock ticks.            *)
(***************************************************************************)
EXTENDS Integers, Sequences, FiniteSets, TLC

(***************************************************************************)
(* Bounds of the cache model                                               *)
(***************************************************************************)
MaxTs == 2
MaxSeqNum == 2
MaxChanges == 3

TopicNames == {"Square"}
TopicKinds == {"WithKey", "NoKey"}
TypeDescs == {"ShapeType", "OtherType"}
\* the (kind, type) pairs topics are declared with
TopicDecls == {<<"WithKey", "ShapeType">>, <<"NoKey", "OtherType">>}
\* the writer of the changes (tests::create_dds_cache uses GUID::GUID_UNKNOWN throughout)
WriterGuids == {"GUID_UNKNOWN"}
Timestamps == 0..MaxTs
SequenceNumbers == 1..MaxSeqNum

\* cache_change.rs ChangeKind values the cache sees
ALIVE == "ALIVE"
NOT_ALIVE_DISPOSED == "NOT_ALIVE_DISPOSED"

\* CacheChange::new(kind, writer_guid, sequence_number, data_value);
\* the payload is <<>> (None) or <<p>> (Some(p))
CacheChange(kind, guid, sn, data) ==
  [kind |-> kind, writer_guid |-> guid, sequence_number |-> sn, data_value |-> data]

\* the changes handed to the cache: data samples of the writers
InputChanges ==
  {CacheChange(ALIVE, g, sn, <<"payload">>) : g \in WriterGuids, sn \in SequenceNumbers}

\* QosPolicyBuilder::new().build()
DefaultQos == "qos_default"

VARIABLES
  topic_caches,   \* DDSCache.topic_caches: topic name -> TopicCache
  ret,            \* what the last cache call returned (or that it panicked)
  attached,       \* the live readers and writers, each with the topic it uses
  ds,             \* the DataSample built last, with what it was built from
  lock,           \* the thread that holds the write guard of the RwLock, or "none"
  added,          \* the add_change calls the threads have made: <<topic, timestamp, thread>>
  consumer,       \* the notification consumer: "receiving", or "handling" what it received
  announced       \* the local readers and writers an info timer has called write for

threadVars == <<lock, added>>
appVars == <<attached, ds, threadVars, consumer, announced>>
cacheVars == <<topic_caches, ret, appVars>>

VARIABLES
  pc,                   \* where discovery_event_loop is: "startup", "running", "stopped"
  now,                  \* the clock, Timestamp::now()
  local_topic_readers,  \* DiscoveryDB: DiscoveredReaderData of the local readers
  local_topic_writers,  \* DiscoveryDB: DiscoveredWriterData of the local writers
  participants,         \* DiscoveryDB: remote participant GUID -> its SPDP data
  readers_updated,      \* DiscoveryDB flag: local readers changed since last publication
  writers_updated,      \* DiscoveryDB flag: local writers changed since last publication
  liveliness_state,     \* LivelinessState of the loop
  timers,               \* deadline of each mio timer
  commands,             \* discovery_command_receiver: commands sent, not yet received
  draining,             \* the loop is inside the while-let of the command event
  spdp_inbox,           \* samples of the SPDP participant reader not yet taken
  spdp_ready,           \* readiness event of the participant reader is pending
  next_refresh,         \* when the application refreshes its manual liveliness next
  manual_sent,          \* MANUAL_LIVELINESS_UPDATE samples written so far
  chan,                 \* discovery_updated_sender: the bounded notification channel
  outbox,               \* notifications the running handler still has to send
  emitted,              \* notifications the handler has handed to the channel
  db_guard,             \* DiscoveryDB guard the loop holds while it sends
  send_guard,           \* DiscoveryDB guard the loop held at its last send
  wire,                 \* writes and disposes the handler made on the built-in writers
  ev,                   \* the event the loop handled last
  startup,              \* what the startup did, in order, with the result it sent
  dp_alive,             \* DomainParticipantWeak::upgrade still finds the participant
  published,            \* the SPDP record the participant-info timer published last
  last_heard,           \* DiscoveryDB: remote participant GUID -> when it was heard last
  remote_readers,       \* DiscoveryDB: GUIDs of the discovered readers
  remote_writers,       \* DiscoveryDB: GUIDs of the discovered writers
  topics,               \* DiscoveryDB: names of the discovered topics
  sedp_inbox            \* samples of the three SEDP readers not yet taken

dbVars == <<local_topic_readers, local_topic_writers, participants,
            readers_updated, writers_updated>>
notifVars == <<chan, outbox, emitted, db_guard, send_guard>>
inputVars == <<commands, draining, spdp_inbox, spdp_ready>>
scenarioVars == <<next_refresh, manual_sent>>
startVars == <<startup, dp_alive, published>>
remoteVars == <<last_heard, remote_readers, remote_writers, topics, sedp_inbox>>
discVars == <<pc, now, dbVars, liveliness_state, timers, inputVars, scenarioVars,
              notifVars, wire, ev, startVars, remoteVars>>

vars == <<cacheVars, discVars>>

(***************************************************************************)
(* BTreeMap<Timestamp, CacheChange>, kept as the key-ordered sequence of   *)
(* its entries <<timestamp, change>>.                                      *)
(***************************************************************************)
Keys(m) == {m[i][1] : i \in 1..Len(m)}

\* BTreeMap::get
BTreeGet(m, k) ==
  IF k \in Keys(m)
    THEN <<m[CHOOSE i \in 1..Len(m) : m[i][1] = k][2]>>
    ELSE <<>>

\* number of entries whose key is below k
Rank(m, k) == Cardinality({i \in 1..Len(m) : m[i][1] < k})

\* BTreeMap::insert as a bug would have it: the entry is added even when the
\* key is there already
BTreeInsert_Dup(m, k, v) ==
  LET r == Rank(m, k)
  IN  SubSeq(m, 1, r) \o <<<<k, v>>>> \o SubSeq(m, r + 1, Len(m))

\* BTreeMap::insert: the value at an existing key is replaced, a new key is
\* put at its place in key order
BTreeInsert(m, k, v) ==
  IF k \in Keys(m)
    THEN [i \in 1..Len(m) |-> IF m[i][1] = k THEN <<k, v>> ELSE m[i]]
    ELSE LET r == Rank(m, k)
         IN  SubSeq(m, 1, r) \o <<<<k, v>>>> \o SubSeq(m, r + 1, Len(m))

\* BTreeMap::remove as a bug would have it: the entries up to the key go
BTreeRemove_UpTo(m, k) == SelectSeq(m, LAMBDA e : e[1] > k)

\* BTreeMap::remove
BTreeRemove(m, k) == SelectSeq(m, LAMBDA e : e[1] # k)

\* BTreeMap::range((lo bound, Included(hi))): the entries in key order;
\* the standard library panics when the range start is above the range end
RangePanics(lo, hi) == lo > hi

BTreeRange(m, loIncluded, lo, hi) ==
  SelectSeq(m, LAMBDA e : (IF loIncluded THEN lo <= e[1] ELSE lo < e[1]) /\ e[1] <= hi)

(***************************************************************************)
(* DDSHistoryCache / TopicCache                                            *)
(***************************************************************************)
\* TopicCache::new
NewTopicCache(kind, type) ==
  [topic_kind |-> kind, topic_data_type |-> type, topic_qos |-> DefaultQos,
   changes |-> <<>>]

\* DDSHistoryCache::get_range_of_changes_vec: Excluded(start), Included(end)
get_range_of_changes_vec(changes, start, end) == BTreeRange(changes, FALSE, start, end)

\* DDSHistoryCache::get_range_of_changes: Included(start), Included(end)
get_range_of_changes(changes, start, end) == BTreeRange(changes, TRUE, start, end)

\* DDSHistoryCache::get_all_changes as a bug would have it: the entries are
\* collected from the last to the first
get_all_changes_Reversed(changes) ==
  [i \in 1..Len(changes) |-> changes[Len(changes) + 1 - i]]

\* DDSHistoryCache::get_all_changes: self.changes.iter().collect(), the
\* entries of the BTreeMap in key order
get_all_changes(changes) == changes

HasTopic(t) == t \in DOMAIN topic_caches

TotalChanges ==
  LET RECURSIVE Sum(_)
      Sum(S) == IF S = {} THEN 0
                ELSE LET t == CHOOSE x \in S : TRUE
                     IN  Len(topic_caches[t].changes) + Sum(S \ {t})
  IN  Sum(DOMAIN topic_caches)

Ret(op, topic, a, b, ok, val, panic) ==
  [op |-> op, topic |-> topic, a |-> a, b |-> b, ok |-> ok, val |-> val, panic |-> panic]

(***************************************************************************)
(* DDSCache operations                                                     *)
(***************************************************************************)
CacheInit ==
  /\ topic_caches = [t \in {} |-> NewTopicCache("WithKey", "ShapeType")]  \* HashMap::new()
  /\ ret = Ret("new", "", 0, 0, TRUE, <<>>, FALSE)
  /\ attached = {}
  /\ ds = [op |-> "none", ts |-> 0, arg |-> <<>>, guid |-> "", sample |-> <<>>]
  /\ lock = "none"
  /\ added = {}
  /\ consumer = "receiving"
  /\ announced = [readers |-> {}, writers |-> {}]

\* DDSCache::add_new_topic as a bug would have it: the insert is made whether
\* or not the name is there
add_new_topic_Overwrite(n, kind, type) ==
  /\ topic_caches' = [t \in DOMAIN topic_caches \cup {n} |->
                        IF t = n THEN NewTopicCache(kind, type) ELSE topic_caches[t]]
  /\ ret' = Ret("add_new_topic", n, 0, 0, ~HasTopic(n), <<kind, type>>, FALSE)

\* DDSCache::add_new_topic
add_new_topic(n, kind, type) ==
  IF HasTopic(n)
    THEN /\ ret' = Ret("add_new_topic", n, 0, 0, FALSE, <<kind, type>>, FALSE)
         /\ UNCHANGED topic_caches
    ELSE /\ topic_caches' = [t \in DOMAIN topic_caches \cup {n} |->
                               IF t = n THEN NewTopicCache(kind, type) ELSE topic_caches[t]]
         /\ ret' = Ret("add_new_topic", n, 0, 0, TRUE, <<kind, type>>, FALSE)

\* DDSCache::remove_topic
remove_topic(n) ==
  /\ topic_caches' = [t \in DOMAIN topic_caches \ {n} |-> topic_caches[t]]
  /\ ret' = Ret("remove_topic", n, 0, 0, TRUE, <<>>, FALSE)

\* DDSCache::to_topic_add_change as a bounded cache would have it: the new
\* change takes the place of the ones stored before
to_topic_add_change_KeepLast(n, instant, cc) ==
  IF HasTopic(n)
    THEN LET old == BTreeGet(topic_caches[n].changes, instant)
             ins == BTreeInsert(<<>>, instant, cc)
         IN  /\ topic_caches' = [topic_caches EXCEPT ![n].changes = ins]
             /\ ret' = Ret("add_change", n, instant, 0, old = <<>>, <<cc>>, old # <<>>)
    ELSE /\ ret' = Ret("add_change", n, instant, 0, FALSE, <<cc>>, TRUE)
         /\ UNCHANGED topic_caches

\* DDSCache::to_topic_add_change -> TopicCache::add_change ->
\* DDSHistoryCache::add_change: the insert is made first, the panic follows
\* when the insert returned an old value
to_topic_add_change(n, instant, cc) ==
  IF HasTopic(n)
    THEN LET old == BTreeGet(topic_caches[n].changes, instant)
             ins == BTreeInsert(topic_caches[n].changes, instant, cc)
         IN  /\ topic_caches' = [topic_caches EXCEPT ![n].changes = ins]
             /\ ret' = Ret("add_change", n, instant, 0, old = <<>>, <<cc>>, old # <<>>)
    ELSE /\ ret' = Ret("add_change", n, instant, 0, FALSE, <<cc>>, TRUE)
         /\ UNCHANGED topic_caches

\* DDSCache::from_topic_get_change
from_topic_get_change(n, instant) ==
  /\ ret' = Ret("get_change", n, instant, 0, TRUE,
                IF HasTopic(n) THEN BTreeGet(topic_caches[n].changes, instant) ELSE <<>>,
                FALSE)
  /\ UNCHANGED topic_caches

\* DDSCache::from_topic_get_changes_in_range -> get_range_of_changes_vec
from_topic_get_changes_in_range(n, start, end) ==
  /\ ret' = IF ~HasTopic(n)
              THEN Ret("get_changes_in_range", n, start, end, TRUE, <<>>, FALSE)
            ELSE IF RangePanics(start, end)
              THEN Ret("get_changes_in_range", n, start, end, FALSE, <<>>, TRUE)
            ELSE Ret("get_changes_in_range", n, start, end, TRUE,
                     get_range_of_changes_vec(topic_caches[n].changes, start, end), FALSE)
  /\ UNCHANGED topic_caches

\* DDSCache::from_topic_get_all_changes
from_topic_get_all_changes(n) ==
  /\ ret' = Ret("get_all_changes", n, 0, 0, TRUE,
                IF HasTopic(n) THEN get_all_changes(topic_caches[n].changes) ELSE <<>>,
                FALSE)
  /\ UNCHANGED topic_caches

\* DDSHistoryCache::change_change_kind as a bug would have it: the kind of
\* every change of the topic is set
change_change_kind_All(changes, instant, kind) ==
  [i \in 1..Len(changes) |-> <<changes[i][1], [changes[i][2] EXCEPT !.kind = kind]>>]

\* DDSHistoryCache::change_change_kind
change_change_kind(changes, instant, kind) ==
  [i \in 1..Len(changes) |->
     IF changes[i][1] = instant
       THEN <<instant, [changes[i][2] EXCEPT !.kind = kind]>>
       ELSE changes[i]]

\* DDSCache::from_topic_set_change_to_not_alive_disposed
from_topic_set_change_to_not_alive_disposed(n, instant) ==
  IF HasTopic(n) /\ instant \in Keys(topic_caches[n].changes)
    THEN /\ topic_caches' = [topic_caches EXCEPT ![n].changes =
                               change_change_kind(@, instant, NOT_ALIVE_DISPOSED)]
         /\ ret' = Ret("set_change_to_not_alive_disposed", n, instant, 0, TRUE, <<>>, FALSE)
    ELSE /\ ret' = Ret("set_change_to_not_alive_disposed", n, instant, 0, FALSE, <<>>, TRUE)
         /\ UNCHANGED topic_caches

\* DDSCache::from_topic_remove_change -> DDSHistoryCache::remove_change
from_topic_remove_change(n, instant) ==
  IF HasTopic(n)
    THEN /\ ret' = Ret("remove_change", n, instant, 0, TRUE,
                       BTreeGet(topic_caches[n].changes, instant), FALSE)
         /\ topic_caches' = [topic_caches EXCEPT ![n].changes = BTreeRemove(@, instant)]
    ELSE /\ ret' = Ret("remove_change", n, instant, 0, FALSE, <<>>, TRUE)
         /\ UNCHANGED topic_caches

(***************************************************************************)
(* Discovery: identities                                                   *)
(***************************************************************************)
MaxTime == 4          \* seconds the clock runs
MaxCmds == 2          \* commands waiting in the command channel
MaxInbox == 2         \* samples waiting in the participant reader
NotifCap == 2         \* capacity of the notification channel
Sec == 3              \* clock units in a second (a Duration divided by 3 stays exact)

SelfPrefix == "self"
RemotePrefixes == {"pB", "pC"}
ENTITYID_PARTICIPANT == "ENTITYID_PARTICIPANT"

BuiltinReaderIds ==
  {"ENTITYID_SPDP_BUILTIN_PARTICIPANT_READER",
   "ENTITYID_SEDP_BUILTIN_SUBSCRIPTIONS_READER",
   "ENTITYID_SEDP_BUILTIN_PUBLICATIONS_READER",
   "ENTITYID_SEDP_BUILTIN_TOPIC_READER",
   "ENTITYID_P2P_BUILTIN_PARTICIPANT_MESSAGE_READER"}

BuiltinWriterIds ==
  {"ENTITYID_SPDP_BUILTIN_PARTICIPANT_WRITER",
   "ENTITYID_SEDP_BUILTIN_SUBSCRIPTIONS_WRITER",
   "ENTITYID_SEDP_BUILTIN_PUBLICATIONS_WRITER",
   "ENTITYID_SEDP_BUILTIN_TOPIC_WRITER",
   "ENTITYID_P2P_BUILTIN_PARTICIPANT_MESSAGE_WRITER"}

UserReaderIds == {"user_reader_1"}
UserWriterIds == {"user_writer_1", "user_writer_2"}

GUID(prefix, eid) == <<prefix, eid>>
NoGuid == <<"", "">>

\* domain_participant.get_guid()
ParticipantGuid == GUID(SelfPrefix, ENTITYID_PARTICIPANT)
\* the GUID REMOVE_LOCAL_WRITER compares with as a bug would have it: that of
\* an application writer
PublicationWriterGuid_User == GUID(SelfPrefix, "user_writer_1")
\* dcps_publication_writer.get_guid(), dcps_subscription_writer.get_guid()
PublicationWriterGuid == GUID(SelfPrefix, "ENTITYID_SEDP_BUILTIN_PUBLICATIONS_WRITER")
SubscriptionWriterGuid == GUID(SelfPrefix, "ENTITYID_SEDP_BUILTIN_SUBSCRIPTIONS_WRITER")

\* Discovery period constants, in clock units
PARTICIPANT_CLEANUP_PERIOD == 2 * Sec
TOPIC_CLEANUP_PERIOD == 10 * Sec
SEND_PARTICIPANT_INFO_PERIOD == 2 * Sec
SEND_TOPIC_INFO_PERIOD == 20 * Sec
SEND_READERS_INFO_PERIOD == 2 * Sec
SEND_WRITERS_INFO_PERIOD == 2 * Sec
CHECK_PARTICIPANT_MESSAGES == 1 * Sec

\* qos::policy::Liveliness; an Option is <<>> or <<value>>
Liveliness(kind, lease) == [kind |-> kind, lease_duration |-> lease]
LeaseDurations == {1 * Sec, 3 * Sec}
LivelinessChoices ==
  {<<>>} \cup {<<Liveliness(k, l)>> :
                 k \in {"Automatic", "ManualByParticipant", "ManualByTopic"},
                 l \in LeaseDurations}

\* DiscoveredReaderData / DiscoveredWriterData of a local endpoint
ReaderData(g) == [remote_reader_guid |-> <<g>>]
WriterData(g, lv) == [remote_writer_guid |-> <<g>>, liveliness |-> lv]

\* DiscoveryNotificationType
Notif(type, flag, g) == <<type, flag, g[1], g[2]>>
WritersInfoUpdated(b) == Notif("WritersInfoUpdated", IF b THEN "true" ELSE "false", NoGuid)
ReadersInfoUpdated == Notif("ReadersInfoUpdated", "", NoGuid)
TopicsInfoUpdated == Notif("TopicsInfoUpdated", "", NoGuid)
AssertTopicLiveliness(g) == Notif("AssertTopicLiveliness", "", g)

\* DiscoveryCommand
Cmd(kind, g) == <<kind, g[1], g[2]>>
STOP_DISCOVERY == Cmd("STOP_DISCOVERY", NoGuid)
REMOVE_LOCAL_WRITER(g) == Cmd("REMOVE_LOCAL_WRITER", g)
REMOVE_LOCAL_READER(g) == Cmd("REMOVE_LOCAL_READER", g)
REFRESH_LAST_MANUAL_LIVELINESS == Cmd("REFRESH_LAST_MANUAL_LIVELINESS", NoGuid)
ASSERT_TOPIC_LIVELINESS(g) == Cmd("ASSERT_TOPIC_LIVELINESS", g)
CmdGuid(c) == GUID(c[2], c[3])

\* the commands the application sends
CommandInputs ==
  {STOP_DISCOVERY}
  \cup {REMOVE_LOCAL_WRITER(GUID(SelfPrefix, e)) :
          e \in {"user_writer_1", "ENTITYID_SEDP_BUILTIN_PUBLICATIONS_WRITER"}}
  \cup {REMOVE_LOCAL_READER(GUID(SelfPrefix, e)) :
          e \in UserReaderIds \cup {"ENTITYID_SEDP_BUILTIN_SUBSCRIPTIONS_WRITER"}}
  \cup {ASSERT_TOPIC_LIVELINESS(GUID(SelfPrefix, "user_writer_1"))}

\* one sample of the SPDP participant reader: value() is Ok(data) or Err(key)
SpdpData(g, lease) == [kind |-> "data", guid |-> g, lease |-> lease]
SpdpDispose(g) == [kind |-> "dispose", guid |-> g, lease |-> 0]
ParticipantLeases == {6 * Sec}
SpdpSamples ==
  {SpdpData(GUID(p, ENTITYID_PARTICIPANT), l) : p \in RemotePrefixes, l \in ParticipantLeases}
  \cup {SpdpDispose(GUID(p, ENTITYID_PARTICIPANT)) : p \in RemotePrefixes}

\* one sample of an SEDP reader: value() is Ok(data) or Err(guid)
SedpData(g) == [kind |-> "data", guid |-> g, topic |-> "Square"]
SedpDispose(g) == [kind |-> "dispose", guid |-> g, topic |-> ""]
RemoteReaderGuids == {GUID(p, "remote_reader") : p \in RemotePrefixes}
RemoteWriterGuids == {GUID(p, "remote_writer") : p \in RemotePrefixes}
SubscriptionSamples == {SedpData(g) : g \in RemoteReaderGuids}
                         \cup {SedpDispose(g) : g \in RemoteReaderGuids}
PublicationSamples == {SedpData(g) : g \in RemoteWriterGuids}
                        \cup {SedpDispose(g) : g \in RemoteWriterGuids}
TopicSamples == {[kind |-> "data", guid |-> NoGuid, topic |-> "Square"]}

\* one write or dispose call group on a built-in writer: the keys it was
\* called with (in the order the DiscoveryDB iterates, which is not fixed)
\* and the ones for which the call returned Err
Group(writer, op, items, fail) ==
  [writer |-> writer, op |-> op, items |-> items,
   failed |-> {g \in items : <<writer, g>> \in fail}, guard |-> "none"]

\* a call group made while the DiscoveryDB guard is alive in the caller
LockedGroup(guard, writer, op, items, fail) ==
  [Group(writer, op, items, fail) EXCEPT !.guard = guard]

\* the calls that can fail: at most one of the calls of a handler run
\* returns Err
FailChoices(calls) == {{}} \cup {{c} : c \in calls}

UserReaderGuid == GUID(SelfPrefix, "user_reader_1")
UserWriterGuid == GUID(SelfPrefix, "user_writer_1")

Min(S) == CHOOSE x \in S : \A y \in S : x <= y

(***************************************************************************)
(* DiscoveryDB                                                             *)
(***************************************************************************)
\* DiscoveryDB::get_all_local_topic_readers / get_all_local_topic_writers
get_all_local_topic_readers == local_topic_readers
get_all_local_topic_writers == local_topic_writers

\* DiscoveryDB::remove_local_topic_reader / remove_local_topic_writer
remove_local_topic_reader(lr, g) == {d \in lr : d.remote_reader_guid # <<g>>}
remove_local_topic_writer(lw, g) == {d \in lw : d.remote_writer_guid # <<g>>}

\* DiscoveryDB::update_participant: the record is stored, the result tells
\* whether the DB changed
update_participant_changed(ps, data) ==
  data.guid \notin DOMAIN ps \/ ps[data.guid] # data.lease
update_participant(ps, data) ==
  [g \in DOMAIN ps \cup {data.guid} |-> IF g = data.guid THEN data.lease ELSE ps[g]]

\* DiscoveryDB::remove_participant
remove_participant(ps, key) == [g \in DOMAIN ps \ {key} |-> ps[g]]

\* DiscoveryDB::update_participant: the participant was heard at inow
update_last_heard(lh, data, inow) ==
  [g \in DOMAIN lh \cup {data.guid} |-> IF g = data.guid THEN inow ELSE lh[g]]

\* DiscoveryDB::update_subscription / update_publication: the endpoint is known
update_subscription(rr, val) == rr \cup {val.guid}
update_publication(rw, val) == rw \cup {val.guid}

\* DiscoveryDB::remove_topic_reader / remove_topic_writer
remove_topic_reader(rr, g) == rr \ {g}
remove_topic_writer(rw, g) == rw \ {g}

\* DiscoveryDB::update_topic_data_drd / update_topic_data_dwd / update_topic_data:
\* the topic is known, the result tells whether the DB changed
update_topic_data(ts, name) == ts \cup {name}
update_topic_data_changed(ts, name) == name \notin ts

\* the participants whose lease has run out: now - last_heard exceeds the
\* lease they declared
ExpiredParticipants(db, inow) ==
  {g \in DOMAIN db.participants : inow - db.last_heard[g] > db.participants[g]}

\* DiscoveryDB::participant_cleanup: the expired participants go, and with
\* them every discovered endpoint that has their GUID prefix
DiscoveryDB_participant_cleanup(db, inow) ==
  LET gone == ExpiredParticipants(db, inow)
      lost == {g[1] : g \in gone}
  IN  [participants |-> [g \in DOMAIN db.participants \ gone |-> db.participants[g]],
       last_heard |-> [g \in DOMAIN db.last_heard \ gone |-> db.last_heard[g]],
       remote_readers |-> {e \in db.remote_readers : e[1] \notin lost},
       remote_writers |-> {e \in db.remote_writers : e[1] \notin lost}]

\* DiscoveryDB::topic_cleanup: topics no endpoint refers to go (every
\* endpoint of the model is on the one topic)
DiscoveryDB_topic_cleanup(ts, rr, rw) == IF rr \cup rw = {} THEN {} ELSE ts

\* DiscoveryDB::get_all_topics
get_all_topics == topics

(***************************************************************************)
(* Notification channel                                                    *)
(***************************************************************************)
\* Discovery::send_discovery_notification, for the notifications ns a handler
\* sends in a row: SyncSender::send puts a notification into the channel when
\* there is room and blocks the loop when the channel is full
SendAll(c, ns) ==
  LET room == NotifCap - Len(c)
      k == IF Len(ns) <= room THEN Len(ns) ELSE room
  IN  [chan |-> c \o SubSeq(ns, 1, k),
       emitted |-> SubSeq(ns, 1, k),
       outbox |-> SubSeq(ns, k + 1, Len(ns))]

\* a handler's notifications ns, sent while it holds the DiscoveryDB guard g
Notify(ns, g) ==
  LET r == SendAll(chan, ns)
  IN  /\ chan' = r.chan
      /\ emitted' = r.emitted
      /\ outbox' = r.outbox
      /\ db_guard' = IF r.outbox = <<>> THEN "none" ELSE g
      /\ send_guard' = IF ns = <<>> THEN send_guard ELSE g

\* the blocked send returns once the consumer has made room
SendUnblocked ==
  /\ outbox # <<>>
  /\ Len(chan) < NotifCap
  /\ chan' = Append(chan, Head(outbox))
  /\ emitted' = Append(emitted, Head(outbox))
  /\ outbox' = Tail(outbox)
  /\ db_guard' = IF Tail(outbox) = <<>> THEN "none" ELSE db_guard
  /\ UNCHANGED send_guard
  /\ UNCHANGED <<pc, now, dbVars, liveliness_state, timers, inputVars, wire, ev>>
  /\ UNCHANGED <<cacheVars, scenarioVars, startVars, remoteVars>>

\* the data-path thread receives a notification
ConsumerRecv ==
  /\ chan # <<>>
  /\ chan' = Tail(chan)
  /\ UNCHANGED <<outbox, emitted, db_guard, send_guard>>
  /\ UNCHANGED <<pc, now, dbVars, liveliness_state, timers, inputVars, wire, ev>>
  /\ UNCHANGED <<cacheVars, scenarioVars, startVars, remoteVars>>

\* the loop is in poll(): no handler is running
Polling == pc = "running" /\ outbox = <<>> /\ ~draining

(***************************************************************************)
(* Publishing the local endpoints                                          *)
(***************************************************************************)
\* the filter closure of write_readers_info as a bug would have it: the SEDP
\* subscriptions reader is not filtered out
IsPublishedReader_NoSubs(p) ==
  IF p.remote_reader_guid = <<>> THEN FALSE
  ELSE LET eid == p.remote_reader_guid[1][2]
       IN  /\ eid # "ENTITYID_SPDP_BUILTIN_PARTICIPANT_READER"
           /\ eid # "ENTITYID_SEDP_BUILTIN_PUBLICATIONS_READER"
           /\ eid # "ENTITYID_SEDP_BUILTIN_TOPIC_READER"
           /\ eid # "ENTITYID_P2P_BUILTIN_PARTICIPANT_MESSAGE_READER"

\* the filter closure of write_readers_info
IsPublishedReader(p) ==
  IF p.remote_reader_guid = <<>> THEN FALSE
  ELSE LET eid == p.remote_reader_guid[1][2]
       IN  /\ eid # "ENTITYID_SPDP_BUILTIN_PARTICIPANT_READER"
           /\ eid # "ENTITYID_SEDP_BUILTIN_SUBSCRIPTIONS_READER"
           /\ eid # "ENTITYID_SEDP_BUILTIN_PUBLICATIONS_READER"
           /\ eid # "ENTITYID_SEDP_BUILTIN_TOPIC_READER"
           /\ eid # "ENTITYID_P2P_BUILTIN_PARTICIPANT_MESSAGE_READER"

\* the filter closure of write_writers_info
IsPublishedWriter(p) ==
  IF p.remote_writer_guid = <<>> THEN FALSE
  ELSE LET eid == p.remote_writer_guid[1][2]
       IN  /\ eid # "ENTITYID_SPDP_BUILTIN_PARTICIPANT_WRITER"
           /\ eid # "ENTITYID_SEDP_BUILTIN_SUBSCRIPTIONS_WRITER"
           /\ eid # "ENTITYID_SEDP_BUILTIN_PUBLICATIONS_WRITER"
           /\ eid # "ENTITYID_SEDP_BUILTIN_TOPIC_WRITER"
           /\ eid # "ENTITYID_P2P_BUILTIN_PARTICIPANT_MESSAGE_WRITER"

\* Discovery::write_readers_info: one writer.write per reader that passes
\* the filter; an Err is logged and the iteration goes on
write_readers_info(fail) ==
  LockedGroup("read", "DCPSSubscription", "write",
        {d.remote_reader_guid[1] : d \in {p \in get_all_local_topic_readers : IsPublishedReader(p)}},
        fail)

\* Discovery::write_writers_info
write_writers_info(fail) ==
  LockedGroup("read", "DCPSPublication", "write",
        {d.remote_writer_guid[1] : d \in {p \in get_all_local_topic_writers : IsPublishedWriter(p)}},
        fail)

(***************************************************************************)
(* The discovery event loop                                                *)
(***************************************************************************)
Event(token, sample) == [token |-> token, sample |-> sample]

\* the built-in endpoints, which the startup has created
BuiltinReaders == {ReaderData(GUID(SelfPrefix, e)) : e \in BuiltinReaderIds}
BuiltinWriters == {WriterData(GUID(SelfPrefix, e), <<>>) : e \in BuiltinWriterIds}

DiscInitWith(userWriters) ==
  /\ pc = "startup"
  /\ now = 0
  /\ local_topic_readers = BuiltinReaders
  /\ local_topic_writers = BuiltinWriters \cup userWriters
  /\ next_refresh = 0
  /\ manual_sent = 0
  /\ participants = [g \in {} |-> 0]
  /\ readers_updated = TRUE
  /\ writers_updated = TRUE
  /\ liveliness_state = [last_auto_update |-> 0, last_manual_participant_update |-> 0]
  /\ timers = [participant_cleanup |-> PARTICIPANT_CLEANUP_PERIOD,
               participant_info |-> SEND_PARTICIPANT_INFO_PERIOD,
               readers_info |-> SEND_READERS_INFO_PERIOD,
               writers_info |-> SEND_WRITERS_INFO_PERIOD,
               topic_cleanup |-> TOPIC_CLEANUP_PERIOD,
               topic_info |-> SEND_TOPIC_INFO_PERIOD,
               participant_message |-> CHECK_PARTICIPANT_MESSAGES]
  /\ commands = <<>>
  /\ draining = FALSE
  /\ spdp_inbox = <<>>
  /\ spdp_ready = FALSE
  /\ chan = <<>>
  /\ outbox = <<>>
  /\ emitted = <<>>
  /\ db_guard = "none"
  /\ send_guard = "none"
  /\ wire = <<>>
  /\ ev = Event("none", <<>>)
  /\ startup = <<>>
  /\ dp_alive = TRUE
  /\ published = <<>>
  /\ last_heard = [g \in {} |-> 0]
  /\ remote_readers = {}
  /\ remote_writers = {}
  /\ topics = {}
  /\ sedp_inbox = [subscription |-> <<>>, publication |-> <<>>, topic |-> <<>>]

DiscInit == DiscInitWith({})

\* the steps of the startup that can fail, in the order of the code:
\* Poll::new, the registration of the command receiver, then the
\* subscriber, the publisher, and per built-in topic its topic, reader,
\* writer and timer with their registrations
StartupSteps ==
  {"Poll::new", "register command receiver", "create_subscriber", "create_publisher",
   "create_topic DCPSParticipant", "create_datareader DCPSParticipant",
   "register participant reader", "register participant cleanup timer",
   "create_datawriter DCPSParticipant", "register participant info timer",
   "create_topic DCPSSubscription", "create_datareader DCPSSubscription",
   "register subscription reader", "create_datawriter DCPSSubscription",
   "register readers info timer",
   "create_topic DCPSPublication", "create_datareader DCPSPublication",
   "register publication reader", "create_datawriter DCPSPublication",
   "register writers info timer",
   "create_topic DCPSTopic", "register topic cleanup timer",
   "create_datareader DCPSTopic", "register topic reader",
   "create_datawriter DCPSTopic", "register topic info timer",
   "create_topic DCPSParticipantMessage", "create_datareader DCPSParticipantMessage",
   "register participant message reader", "create_datawriter DCPSParticipantMessage",
   "register participant message timer"}

\* a failing step as a bug would have it: the thread returns with nothing
\* sent on the startup channel
StartupFails_Silent ==
  /\ pc = "startup"
  /\ \E step \in StartupSteps : startup' = <<step>>
  /\ pc' = "failed"
  /\ UNCHANGED <<now, dbVars, liveliness_state, timers, inputVars, notifVars, wire, ev,
                 dp_alive, published>>
  /\ UNCHANGED <<cacheVars, scenarioVars, remoteVars>>

\* a step of the startup fails: Err(PreconditionNotMet) is sent on the
\* startup channel and the thread ends (return, or panic after Poll::new)
StartupFails ==
  /\ pc = "startup"
  /\ \E step \in StartupSteps : startup' = <<step, "send Err">>
  /\ pc' = "failed"
  /\ UNCHANGED <<now, dbVars, liveliness_state, timers, inputVars, notifVars, wire, ev,
                 dp_alive, published>>
  /\ UNCHANGED <<cacheVars, scenarioVars, remoteVars>>

\* the startup tail as a bug would have it: the result is sent first
StartupTailSteps_ResultFirst ==
  <<"send Ok", "initialize_participant_reader_proxy", "send WritersInfoUpdated{true}",
    "write_writers_info", "write_readers_info">>

\* what the startup tail does, in the order of the code
StartupTailSteps ==
  <<"initialize_participant_reader_proxy", "send WritersInfoUpdated{true}",
    "write_writers_info", "write_readers_info", "send Ok">>

\* the tail of the startup: initialize_participant (which sends while it
\* holds the write guard), write_writers_info, write_readers_info, and the
\* Ok on the startup channel; the loop is entered unless that send fails
\* because the receiver is gone
StartupTail ==
  /\ pc = "startup"
  /\ db_guard = "none"
  /\ \E fail \in FailChoices({<<"DCPSSubscription", UserReaderGuid>>, <<"DCPSPublication", UserWriterGuid>>}) :
       wire' = <<write_writers_info(fail), write_readers_info(fail)>>
  /\ Notify(<<WritersInfoUpdated(TRUE)>>, "write")
  /\ startup' = startup \o StartupTailSteps
  /\ \E received \in BOOLEAN : pc' = IF received THEN "running" ELSE "failed"
  /\ ev' = Event("STARTUP", <<>>)
  /\ UNCHANGED <<now, dbVars, liveliness_state, timers, inputVars, dp_alive, published>>
  /\ UNCHANGED <<cacheVars, scenarioVars, remoteVars>>

\* read_readers_info as a bug would have it: the flag is not looked at
read_readers_info_Always(updated) == [ret |-> TRUE, updated |-> FALSE]

\* Discovery::read_readers_info: the flag is read under the read guard and,
\* when it is set, cleared under the write guard; the flag read is returned
read_readers_info(updated) ==
  [ret |-> updated, updated |-> IF updated THEN FALSE ELSE updated]

\* Discovery::read_writers_info
read_writers_info(updated) ==
  [ret |-> updated, updated |-> IF updated THEN FALSE ELSE updated]

\* DISCOVERY_SEND_READERS_INFO_TOKEN: read_readers_info, write_readers_info,
\* and the timer is set again
SendReadersInfoEvent ==
  /\ Polling
  /\ now >= timers.readers_info
  /\ \E fail \in FailChoices({<<"DCPSSubscription", UserReaderGuid>>}) :
       wire' = IF read_readers_info(readers_updated).ret
                 THEN <<write_readers_info(fail)>> ELSE <<>>
  /\ readers_updated' = read_readers_info(readers_updated).updated
  /\ timers' = [timers EXCEPT !.readers_info = now + SEND_READERS_INFO_PERIOD]
  /\ ev' = Event("DISCOVERY_SEND_READERS_INFO", <<>>)
  /\ emitted' = <<>>
  /\ UNCHANGED <<pc, now, local_topic_readers, local_topic_writers, participants,
                 writers_updated, liveliness_state, inputVars, chan, outbox, db_guard, send_guard>>
  /\ UNCHANGED <<cacheVars, scenarioVars, startVars, remoteVars>>

\* DISCOVERY_SEND_WRITERS_INFO_TOKEN
SendWritersInfoEvent ==
  /\ Polling
  /\ now >= timers.writers_info
  /\ \E fail \in FailChoices({<<"DCPSPublication", UserWriterGuid>>}) :
       wire' = IF read_writers_info(writers_updated).ret
                 THEN <<write_writers_info(fail)>> ELSE <<>>
  /\ writers_updated' = read_writers_info(writers_updated).updated
  /\ timers' = [timers EXCEPT !.writers_info = now + SEND_WRITERS_INFO_PERIOD]
  /\ ev' = Event("DISCOVERY_SEND_WRITERS_INFO", <<>>)
  /\ emitted' = <<>>
  /\ UNCHANGED <<pc, now, local_topic_readers, local_topic_writers, participants,
                 readers_updated, liveliness_state, inputVars, chan, outbox, db_guard, send_guard>>
  /\ UNCHANGED <<cacheVars, scenarioVars, startVars, remoteVars>>

\* handle_participant_reader as a bug would have it: the disposal sends
\* ReadersInfoUpdated only
DisposalNotifications_Short == <<ReadersInfoUpdated>>

\* the notifications of the Err(key) branch of handle_participant_reader
DisposalNotifications == <<WritersInfoUpdated(FALSE), ReadersInfoUpdated>>

\* DISCOVERY_PARTICIPANT_DATA_TOKEN: handle_participant_reader takes one
\* sample; a disposal removes the participant and notifies with no guard
\* held; data goes to update_participant and notifies, under the write
\* guard, when the DB changed; update_spdp_participant_writer follows with
\* the same data, finds the DB unchanged and sends nothing
HandleParticipantData ==
  /\ Polling
  /\ spdp_ready
  /\ spdp_ready' = FALSE
  /\ wire' = <<>>
  /\ IF spdp_inbox = <<>>
       THEN /\ ev' = Event("DISCOVERY_PARTICIPANT_DATA", <<>>)
            /\ Notify(<<>>, "none")
            /\ UNCHANGED <<spdp_inbox, participants, last_heard>>
       ELSE LET d == Head(spdp_inbox)
            IN  /\ spdp_inbox' = Tail(spdp_inbox)
                /\ ev' = Event("DISCOVERY_PARTICIPANT_DATA", <<d>>)
                /\ IF d.kind = "dispose"
                     THEN /\ participants' = remove_participant(participants, d.guid)
                          /\ last_heard' = remove_participant(last_heard, d.guid)
                          /\ Notify(DisposalNotifications, "none")
                     ELSE /\ participants' = update_participant(participants, d)
                          /\ last_heard' = update_last_heard(last_heard, d, now)
                          /\ IF update_participant_changed(participants, d)
                               THEN Notify(<<WritersInfoUpdated(FALSE), ReadersInfoUpdated>>,
                                           "write")
                               ELSE Notify(<<>>, "none")
  /\ UNCHANGED <<pc, now, local_topic_readers, local_topic_writers, readers_updated,
                 writers_updated, liveliness_state, timers, commands, draining>>
  /\ UNCHANGED <<cacheVars, scenarioVars, startVars, remote_readers, remote_writers,
                 topics, sedp_inbox>>

\* the loop of handle_subscription_reader over the samples taken
RECURSIVE SubscriptionsApplied(_, _)
\* the loop as a bug would have it: the Err(guid) arm notifies and leaves the
\* DiscoveryDB alone
SubscriptionsApplied_NoRemove(st, samples) ==
  IF samples = <<>> THEN st
  ELSE LET d == Head(samples)
       IN  SubscriptionsApplied(
             IF d.kind = "data"
               THEN [rr |-> update_subscription(st.rr, d),
                     ts |-> update_topic_data(st.ts, d.topic),
                     ns |-> Append(st.ns, WritersInfoUpdated(TRUE))]
               ELSE [rr |-> st.rr,
                     ts |-> st.ts,
                     ns |-> Append(st.ns, WritersInfoUpdated(FALSE))],
             Tail(samples))

SubscriptionsApplied(st, samples) ==
  IF samples = <<>> THEN st
  ELSE LET d == Head(samples)
       IN  SubscriptionsApplied(
             IF d.kind = "data"
               THEN [rr |-> update_subscription(st.rr, d),
                     ts |-> update_topic_data(st.ts, d.topic),
                     ns |-> Append(st.ns, WritersInfoUpdated(TRUE))]
               ELSE [rr |-> remove_topic_reader(st.rr, d.guid),
                     ts |-> st.ts,
                     ns |-> Append(st.ns, WritersInfoUpdated(FALSE))],
             Tail(samples))

\* DISCOVERY_READER_DATA_TOKEN: handle_subscription_reader takes the samples
\* and, holding the write guard, applies each and notifies for each
HandleSubscriptionReader ==
  /\ Polling
  /\ sedp_inbox.subscription # <<>>
  /\ LET st == SubscriptionsApplied([rr |-> remote_readers, ts |-> topics, ns |-> <<>>],
                                    sedp_inbox.subscription)
     IN  /\ remote_readers' = st.rr
         /\ topics' = st.ts
         /\ Notify(st.ns, "write")
  /\ sedp_inbox' = [sedp_inbox EXCEPT !.subscription = <<>>]
  /\ wire' = <<>>
  /\ ev' = Event("DISCOVERY_READER_DATA", sedp_inbox.subscription)
  /\ UNCHANGED <<pc, now, dbVars, liveliness_state, timers, inputVars>>
  /\ UNCHANGED <<cacheVars, scenarioVars, startVars, last_heard, remote_writers>>

\* the loop of handle_publication_reader over the samples taken
RECURSIVE PublicationsApplied(_, _)
PublicationsApplied(st, samples) ==
  IF samples = <<>> THEN st
  ELSE LET d == Head(samples)
       IN  PublicationsApplied(
             IF d.kind = "data"
               THEN [rw |-> update_publication(st.rw, d),
                     ts |-> update_topic_data(st.ts, d.topic),
                     ns |-> Append(st.ns, ReadersInfoUpdated)]
               ELSE [rw |-> remove_topic_writer(st.rw, d.guid),
                     ts |-> st.ts,
                     ns |-> Append(st.ns, ReadersInfoUpdated)],
             Tail(samples))

\* DISCOVERY_WRITER_DATA_TOKEN: handle_publication_reader
HandlePublicationReader ==
  /\ Polling
  /\ sedp_inbox.publication # <<>>
  /\ LET st == PublicationsApplied([rw |-> remote_writers, ts |-> topics, ns |-> <<>>],
                                   sedp_inbox.publication)
     IN  /\ remote_writers' = st.rw
         /\ topics' = st.ts
         /\ Notify(st.ns, "write")
  /\ sedp_inbox' = [sedp_inbox EXCEPT !.publication = <<>>]
  /\ wire' = <<>>
  /\ ev' = Event("DISCOVERY_WRITER_DATA", sedp_inbox.publication)
  /\ UNCHANGED <<pc, now, dbVars, liveliness_state, timers, inputVars>>
  /\ UNCHANGED <<cacheVars, scenarioVars, startVars, last_heard, remote_readers>>

\* the for_each of handle_topic_reader over the samples taken
RECURSIVE TopicsApplied(_, _)
TopicsApplied(st, samples) ==
  IF samples = <<>> THEN st
  ELSE LET d == Head(samples)
       IN  TopicsApplied(
             [ts |-> update_topic_data(st.ts, d.topic),
              ns |-> IF update_topic_data_changed(st.ts, d.topic)
                       THEN Append(st.ns, TopicsInfoUpdated) ELSE st.ns],
             Tail(samples))

\* DISCOVERY_TOPIC_DATA_TOKEN: handle_topic_reader
HandleTopicReader ==
  /\ Polling
  /\ sedp_inbox.topic # <<>>
  /\ LET st == TopicsApplied([ts |-> topics, ns |-> <<>>], sedp_inbox.topic)
     IN  /\ topics' = st.ts
         /\ Notify(st.ns, "write")
  /\ sedp_inbox' = [sedp_inbox EXCEPT !.topic = <<>>]
  /\ wire' = <<>>
  /\ ev' = Event("DISCOVERY_TOPIC_DATA", <<>>)
  /\ UNCHANGED <<pc, now, dbVars, liveliness_state, timers, inputVars>>
  /\ UNCHANGED <<cacheVars, scenarioVars, startVars, last_heard, remote_readers,
                 remote_writers>>

\* Discovery::participant_cleanup as a bug would have it: the DiscoveryDB is
\* not asked to clean up
participant_cleanup_Skipped(db, inow) == db

\* Discovery::participant_cleanup
participant_cleanup(db, inow) == DiscoveryDB_participant_cleanup(db, inow)

\* DISCOVERY_PARTICIPANT_CLEANUP_TOKEN: participant_cleanup, and the timer is
\* set again; nothing is sent on the notification channel
ParticipantCleanupEvent ==
  /\ Polling
  /\ now >= timers.participant_cleanup
  /\ LET db == participant_cleanup([participants |-> participants,
                                    last_heard |-> last_heard,
                                    remote_readers |-> remote_readers,
                                    remote_writers |-> remote_writers], now)
     IN  /\ participants' = db.participants
         /\ last_heard' = db.last_heard
         /\ remote_readers' = db.remote_readers
         /\ remote_writers' = db.remote_writers
  /\ timers' = [timers EXCEPT !.participant_cleanup = now + PARTICIPANT_CLEANUP_PERIOD]
  /\ ev' = Event("DISCOVERY_PARTICIPANT_CLEANUP", <<>>)
  /\ wire' = <<>>
  /\ emitted' = <<>>
  /\ UNCHANGED <<pc, now, local_topic_readers, local_topic_writers, readers_updated,
                 writers_updated, liveliness_state, inputVars, chan, outbox, db_guard, send_guard>>
  /\ UNCHANGED <<cacheVars, scenarioVars, startVars, topics, sedp_inbox>>

\* the lease as a bug would have it: one send period
lease_duration_Single == SEND_PARTICIPANT_INFO_PERIOD

\* let lease_duration = PERIOD + PERIOD + PERIOD
lease_duration ==
  SEND_PARTICIPANT_INFO_PERIOD + SEND_PARTICIPANT_INFO_PERIOD + SEND_PARTICIPANT_INFO_PERIOD

\* SPDPDiscoveredParticipantData::from_participant: the record of the
\* participant, with the lease it is given
from_participant(g, lease) == SpdpData(g, lease)

\* DISCOVERY_SEND_PARTICIPANT_INFO_TOKEN: when the participant is gone the
\* loop returns; otherwise the record is written with no guard held, the
\* result of the write goes to unwrap_or(()), and the timer is set again
SendParticipantInfoEvent ==
  /\ Polling
  /\ now >= timers.participant_info
  /\ ev' = Event("DISCOVERY_SEND_PARTICIPANT_INFO", <<>>)
  /\ emitted' = <<>>
  /\ IF dp_alive
       THEN /\ \E fail \in FailChoices({<<"DCPSParticipant", ParticipantGuid>>}) :
                 /\ wire' = <<Group("DCPSParticipant", "write", {ParticipantGuid}, fail)>>
                 /\ published' = IF fail = {}
                                   THEN <<from_participant(ParticipantGuid, lease_duration)>>
                                   ELSE published
            /\ timers' = [timers EXCEPT !.participant_info = now + SEND_PARTICIPANT_INFO_PERIOD]
            /\ UNCHANGED pc
       ELSE /\ pc' = "stopped"
            /\ wire' = <<>>
            /\ UNCHANGED <<timers, published>>
  /\ UNCHANGED <<now, dbVars, liveliness_state, inputVars, chan, outbox, db_guard, send_guard>>
  /\ UNCHANGED <<cacheVars, scenarioVars, startup, dp_alive, remoteVars>>

\* Discovery::topic_cleanup
topic_cleanup(ts, rr, rw) == DiscoveryDB_topic_cleanup(ts, rr, rw)

\* the topic-cleanup branch as a bug would have it: the timer is set with
\* the period of the participant cleanup
TopicCleanupEvent_ParticipantPeriod ==
  /\ Polling
  /\ now >= timers.topic_cleanup
  /\ topics' = topic_cleanup(topics, remote_readers, remote_writers)
  /\ timers' = [timers EXCEPT !.topic_cleanup = now + PARTICIPANT_CLEANUP_PERIOD]
  /\ ev' = Event("DISCOVERY_TOPIC_CLEANUP", <<>>)
  /\ wire' = <<>>
  /\ emitted' = <<>>
  /\ UNCHANGED <<pc, now, dbVars, liveliness_state, inputVars, chan, outbox, db_guard, send_guard>>
  /\ UNCHANGED <<cacheVars, scenarioVars, startVars, last_heard, remote_readers,
                 remote_writers, sedp_inbox>>

\* DISCOVERY_TOPIC_CLEANUP_TOKEN: topic_cleanup, and the timer is set again
TopicCleanupEvent ==
  /\ Polling
  /\ now >= timers.topic_cleanup
  /\ topics' = topic_cleanup(topics, remote_readers, remote_writers)
  /\ timers' = [timers EXCEPT !.topic_cleanup = now + TOPIC_CLEANUP_PERIOD]
  /\ ev' = Event("DISCOVERY_TOPIC_CLEANUP", <<>>)
  /\ wire' = <<>>
  /\ emitted' = <<>>
  /\ UNCHANGED <<pc, now, dbVars, liveliness_state, inputVars, chan, outbox, db_guard, send_guard>>
  /\ UNCHANGED <<cacheVars, scenarioVars, startVars, last_heard, remote_readers,
                 remote_writers, sedp_inbox>>

\* the key of a topic on the topic writer
TopicKey(t) == <<"topic", t>>

\* Discovery::write_topic_info: one writer.write per topic of the DB, under
\* the read guard; an Err is logged and the iteration goes on
write_topic_info(fail) ==
  LockedGroup("read", "DCPSTopic", "write", {TopicKey(t) : t \in get_all_topics}, fail)

\* DISCOVERY_SEND_TOPIC_INFO_TOKEN: write_topic_info, and the timer is set
\* again
SendTopicInfoEvent ==
  /\ Polling
  /\ now >= timers.topic_info
  /\ \E fail \in FailChoices({<<"DCPSTopic", TopicKey("Square")>>}) :
       wire' = <<write_topic_info(fail)>>
  /\ timers' = [timers EXCEPT !.topic_info = now + SEND_TOPIC_INFO_PERIOD]
  /\ ev' = Event("DISCOVERY_SEND_TOPIC_INFO", <<>>)
  /\ emitted' = <<>>
  /\ UNCHANGED <<pc, now, dbVars, liveliness_state, inputVars, chan, outbox, db_guard, send_guard>>
  /\ UNCHANGED <<cacheVars, scenarioVars, startVars, remoteVars>>

(***************************************************************************)
(* The command event                                                       *)
(***************************************************************************)
LocalReaderGuids(lr) == {d.remote_reader_guid[1] : d \in lr}
LocalWriterGuids(lw) == {d.remote_writer_guid[1] : d \in lw}

\* the STOP_DISCOVERY branch as a bug would have it: the participant is
\* disposed first
StopDisposes_ParticipantFirst(lr, lw, fail) ==
  << LockedGroup("read", "DCPSParticipant", "dispose", {ParticipantGuid}, fail),
     LockedGroup("read", "DCPSSubscription", "dispose", LocalReaderGuids(lr), fail),
     LockedGroup("read", "DCPSPublication", "dispose", LocalWriterGuids(lw), fail) >>

\* the STOP_DISCOVERY branch: a dispose per local reader, a dispose per local
\* writer, the dispose of the participant; every result goes to unwrap_or(())
StopDisposes(lr, lw, fail) ==
  << LockedGroup("read", "DCPSSubscription", "dispose", LocalReaderGuids(lr), fail),
     LockedGroup("read", "DCPSPublication", "dispose", LocalWriterGuids(lw), fail),
     LockedGroup("read", "DCPSParticipant", "dispose", {ParticipantGuid}, fail) >>

\* discovery_command_receiver.try_recv() as a bug would have it: the command
\* sent last is received first
try_recv_Last(q) == [command |-> q[Len(q)], rest |-> SubSeq(q, 1, Len(q) - 1)]

\* discovery_command_receiver.try_recv() on a channel that is not empty: the
\* command sent first, and what stays in the channel
try_recv(q) == [command |-> Head(q), rest |-> Tail(q)]

\* while let Ok(command) = try_recv(): the commands of st.q are taken one by
\* one until the queue is empty, STOP_DISCOVERY returns, or a notification
\* blocks on the full channel
RECURSIVE Drain(_, _, _)
\* the while-let as a bug would have it: REMOVE_LOCAL_WRITER removes the writer
\* from the DiscoveryDB and disposes nothing
Drain_NoDispose(st, fail, inow) ==
  IF st.q = <<>> \/ st.stopped \/ st.outbox # <<>> THEN st
  ELSE
    LET c == Head(st.q)
        g == CmdGuid(c)
        st1 == [st EXCEPT !.q = Tail(st.q)]
    IN  CASE c[1] = "STOP_DISCOVERY" ->
               [st1 EXCEPT !.wire = @ \o StopDisposes(st.lr, st.lw, fail),
                           !.stopped = TRUE]
          [] c[1] = "REMOVE_LOCAL_WRITER" ->
               IF g = PublicationWriterGuid
                 THEN Drain(st1, fail, inow)
                 ELSE Drain([st1 EXCEPT !.lw = remove_local_topic_writer(@, g)],
                            fail, inow)
          [] c[1] = "REMOVE_LOCAL_READER" ->
               IF g = SubscriptionWriterGuid
                 THEN Drain(st1, fail, inow)
                 ELSE Drain([st1 EXCEPT
                               !.wire = Append(@, Group("DCPSSubscription", "dispose", {g}, fail)),
                               !.lr = remove_local_topic_reader(@, g)],
                            fail, inow)
          [] c[1] = "REFRESH_LAST_MANUAL_LIVELINESS" ->
               Drain([st1 EXCEPT !.lm = inow], fail, inow)
          [] c[1] = "ASSERT_TOPIC_LIVELINESS" ->
               IF Len(st.chan) < NotifCap
                 THEN Drain([st1 EXCEPT !.chan = Append(@, AssertTopicLiveliness(g)),
                                        !.emitted = Append(@, AssertTopicLiveliness(g))],
                            fail, inow)
                 ELSE [st1 EXCEPT !.outbox = <<AssertTopicLiveliness(g)>>]

\* the while-let of the command event
Drain(st, fail, inow) ==
  IF st.q = <<>> \/ st.stopped \/ st.outbox # <<>> THEN st
  ELSE
    LET c == try_recv(st.q).command
        g == CmdGuid(c)
        st1 == [st EXCEPT !.q = try_recv(st.q).rest]
    IN  CASE c[1] = "STOP_DISCOVERY" ->
               [st1 EXCEPT !.wire = @ \o StopDisposes(st.lr, st.lw, fail),
                           !.stopped = TRUE]
          [] c[1] = "REMOVE_LOCAL_WRITER" ->
               IF g = PublicationWriterGuid
                 THEN Drain(st1, fail, inow)
                 ELSE Drain([st1 EXCEPT
                               !.wire = Append(@, Group("DCPSPublication", "dispose", {g}, fail)),
                               !.lw = remove_local_topic_writer(@, g)],
                            fail, inow)
          [] c[1] = "REMOVE_LOCAL_READER" ->
               IF g = SubscriptionWriterGuid
                 THEN Drain(st1, fail, inow)
                 ELSE Drain([st1 EXCEPT
                               !.wire = Append(@, Group("DCPSSubscription", "dispose", {g}, fail)),
                               !.lr = remove_local_topic_reader(@, g)],
                            fail, inow)
          [] c[1] = "REFRESH_LAST_MANUAL_LIVELINESS" ->
               Drain([st1 EXCEPT !.lm = inow], fail, inow)
          [] c[1] = "ASSERT_TOPIC_LIVELINESS" ->
               IF Len(st.chan) < NotifCap
                 THEN Drain([st1 EXCEPT !.chan = Append(@, AssertTopicLiveliness(g)),
                                        !.emitted = Append(@, AssertTopicLiveliness(g))],
                            fail, inow)
                 ELSE [st1 EXCEPT !.outbox = <<AssertTopicLiveliness(g)>>]

\* DISCOVERY_COMMAND_TOKEN, and the rest of its while-let after a blocked
\* notification went through
HandleCommands ==
  /\ pc = "running"
  /\ outbox = <<>>
  /\ commands # <<>> \/ draining
  /\ \E fail \in FailChoices({<<"DCPSSubscription", UserReaderGuid>>,
                          <<"DCPSPublication", UserWriterGuid>>,
                          <<"DCPSParticipant", ParticipantGuid>>}) :
       LET st == Drain([q |-> commands, lr |-> local_topic_readers,
                        lw |-> local_topic_writers,
                        lm |-> liveliness_state.last_manual_participant_update,
                        wire |-> <<>>, chan |-> chan, emitted |-> <<>>,
                        outbox |-> <<>>, stopped |-> FALSE],
                       fail, now)
       IN  /\ commands' = st.q
           /\ local_topic_readers' = st.lr
           /\ local_topic_writers' = st.lw
           /\ liveliness_state' = [liveliness_state EXCEPT
                                     !.last_manual_participant_update = st.lm]
           /\ wire' = st.wire
           /\ chan' = st.chan
           /\ emitted' = st.emitted
           /\ outbox' = st.outbox
           /\ draining' = (st.outbox # <<>>)
           /\ send_guard' = IF st.emitted \o st.outbox = <<>> THEN send_guard ELSE "none"
           /\ pc' = IF st.stopped THEN "stopped" ELSE "running"
           /\ ev' = Event("DISCOVERY_COMMAND", <<Len(commands) - Len(st.q)>>)
  /\ db_guard' = "none"
  /\ UNCHANGED <<now, participants, readers_updated, writers_updated, timers,
                 spdp_inbox, spdp_ready>>
  /\ UNCHANGED <<cacheVars, scenarioVars, startVars, remoteVars>>

(***************************************************************************)
(* Liveliness                                                              *)
(***************************************************************************)
\* the lease durations of the local writers of one liveliness kind
LeasesOf(lw, kind) ==
  {d.liveliness[1].lease_duration :
     d \in {p \in lw : p.liveliness # <<>> /\ p.liveliness[1].kind = kind}}

\* Duration::from(inow.duration_since(last) / 3)
current_duration(inow, last) == (inow - last) \div 3

\* the test as the documentation has it: a third of the lease has passed
LivelinessDue_ThirdOfLease(inow, last, leases) ==
  leases # {} /\ 3 * (inow - last) > Min(leases)

\* match min { Some(&mm) => if current_duration > mm ..., None => () }
LivelinessDue(inow, last, leases) ==
  leases # {} /\ current_duration(inow, last) > Min(leases)

AutoMessage == GUID(SelfPrefix, "AUTOMATIC_LIVELINESS_UPDATE")
ManualMessage == GUID(SelfPrefix, "MANUAL_LIVELINESS_UPDATE")

\* Discovery::write_participant_message as a bug would have it: a manual
\* update that was written is stamped in last_manual_participant_update
write_participant_message_ManualStamp(lw, ls, inow, fail) ==
  LET autoDue == LivelinessDue(inow, ls.last_auto_update, LeasesOf(lw, "Automatic"))
      autoGrp == LockedGroup("read", "DCPSParticipantMessage", "write", {AutoMessage}, fail)
      autoErr == autoDue /\ autoGrp.failed # {}
      manDue == LivelinessDue(inow, ls.last_manual_participant_update,
                              LeasesOf(lw, "ManualByParticipant"))
      manGrp == LockedGroup("read", "DCPSParticipantMessage", "write", {ManualMessage}, fail)
      ls1 == IF autoDue /\ ~autoErr THEN [ls EXCEPT !.last_auto_update = inow] ELSE ls
  IN  [wire |-> (IF autoDue THEN <<autoGrp>> ELSE <<>>)
                  \o (IF ~autoErr /\ manDue THEN <<manGrp>> ELSE <<>>),
       ls |-> IF ~autoErr /\ manDue /\ manGrp.failed = {}
                THEN [ls1 EXCEPT !.last_manual_participant_update = inow]
                ELSE ls1]

\* Discovery::write_participant_message: the writes it makes, in order, and
\* the new last_auto_update; an Err of writer.write returns at once
write_participant_message(lw, ls, inow, fail) ==
  LET autoDue == LivelinessDue(inow, ls.last_auto_update, LeasesOf(lw, "Automatic"))
      autoGrp == LockedGroup("read", "DCPSParticipantMessage", "write", {AutoMessage}, fail)
      autoErr == autoDue /\ autoGrp.failed # {}
      manDue == LivelinessDue(inow, ls.last_manual_participant_update,
                              LeasesOf(lw, "ManualByParticipant"))
      manGrp == LockedGroup("read", "DCPSParticipantMessage", "write", {ManualMessage}, fail)
  IN  [wire |-> (IF autoDue THEN <<autoGrp>> ELSE <<>>)
                  \o (IF ~autoErr /\ manDue THEN <<manGrp>> ELSE <<>>),
       ls |-> IF autoDue /\ ~autoErr
                THEN [ls EXCEPT !.last_auto_update = inow]
                ELSE ls]

\* DISCOVERY_PARTICIPANT_MESSAGE_TIMER_TOKEN
LivelinessTimerEvent ==
  /\ Polling
  /\ now >= timers.participant_message
  /\ \E fail \in FailChoices({<<"DCPSParticipantMessage", AutoMessage>>,
                          <<"DCPSParticipantMessage", ManualMessage>>}) :
       LET r == write_participant_message(local_topic_writers, liveliness_state, now, fail)
       IN  /\ wire' = r.wire
           /\ liveliness_state' = r.ls
           /\ manual_sent' = manual_sent + Cardinality(
                 {i \in 1..Len(r.wire) : ManualMessage \in r.wire[i].items \ r.wire[i].failed})
  /\ timers' = [timers EXCEPT !.participant_message = now + CHECK_PARTICIPANT_MESSAGES]
  /\ ev' = Event("DISCOVERY_PARTICIPANT_MESSAGE_TIMER", <<>>)
  /\ emitted' = <<>>
  /\ UNCHANGED <<pc, now, dbVars, inputVars, next_refresh, chan, outbox, db_guard, send_guard>>
  /\ UNCHANGED <<cacheVars, startVars, remoteVars>>

(***************************************************************************)
(* The environment of the loop                                             *)
(***************************************************************************)
\* the clock
Tick ==
  /\ now < MaxTime * Sec
  /\ now' = now + Sec
  /\ UNCHANGED <<pc, dbVars, liveliness_state, timers, inputVars, notifVars, wire, ev>>
  /\ UNCHANGED <<cacheVars, scenarioVars, startVars, remoteVars>>

\* the application sends a command
SendCommand(cmds) ==
  /\ Len(commands) < MaxCmds
  /\ \E c \in cmds : commands' = Append(commands, c)
  /\ UNCHANGED <<pc, now, dbVars, liveliness_state, timers, draining, spdp_inbox,
                 spdp_ready, notifVars, wire, ev>>
  /\ UNCHANGED <<cacheVars, scenarioVars, startVars, remoteVars>>

\* one of the samples arrives at the SPDP participant reader
SpdpArriveOf(samples) ==
  /\ Len(spdp_inbox) < MaxInbox
  /\ \E d \in samples : spdp_inbox' = Append(spdp_inbox, d)
  /\ spdp_ready' = TRUE
  /\ UNCHANGED <<pc, now, dbVars, liveliness_state, timers, commands, draining,
                 notifVars, wire, ev>>
  /\ UNCHANGED <<cacheVars, scenarioVars, startVars, remoteVars>>

\* a sample arrives at the SPDP participant reader
SpdpArrive == SpdpArriveOf(SpdpSamples)

\* one of the samples arrives at an SEDP reader
SedpArrive(reader, samples) ==
  /\ Len(sedp_inbox[reader]) < MaxInbox
  /\ \E d \in samples : sedp_inbox' = [sedp_inbox EXCEPT ![reader] = Append(@, d)]
  /\ UNCHANGED <<pc, now, dbVars, liveliness_state, timers, inputVars, notifVars, wire, ev>>
  /\ UNCHANGED <<cacheVars, scenarioVars, startVars, last_heard, remote_readers,
                 remote_writers, topics>>

\* the application creates a reader: DiscoveryDB::update_local_topic_reader
AddLocalReader ==
  /\ db_guard = "none"
  /\ \E e \in UserReaderIds :
       /\ ReaderData(GUID(SelfPrefix, e)) \notin local_topic_readers
       /\ local_topic_readers' = local_topic_readers \cup {ReaderData(GUID(SelfPrefix, e))}
  /\ readers_updated' = TRUE
  /\ UNCHANGED <<pc, now, local_topic_writers, participants, writers_updated,
                 liveliness_state, timers, inputVars, notifVars, wire, ev>>
  /\ UNCHANGED <<cacheVars, scenarioVars, startVars, remoteVars>>

\* the application creates a writer: DiscoveryDB::update_local_topic_writer
AddLocalWriter(ids, choices) ==
  /\ db_guard = "none"
  /\ \E e \in ids, lv \in choices :
       /\ GUID(SelfPrefix, e) \notin LocalWriterGuids(local_topic_writers)
       /\ local_topic_writers' = local_topic_writers \cup {WriterData(GUID(SelfPrefix, e), lv)}
  /\ writers_updated' = TRUE
  /\ UNCHANGED <<pc, now, local_topic_readers, participants, readers_updated,
                 liveliness_state, timers, inputVars, notifVars, wire, ev>>
  /\ UNCHANGED <<cacheVars, scenarioVars, startVars, remoteVars>>

(***************************************************************************)
(* The cache under arbitrary callers                                       *)
(***************************************************************************)
AddTopic ==
  /\ \E n \in TopicNames, kd \in TopicDecls : add_new_topic(n, kd[1], kd[2])
  /\ UNCHANGED <<discVars, appVars>>

RemoveTopic ==
  /\ \E n \in TopicNames : remove_topic(n)
  /\ UNCHANGED <<discVars, appVars>>

AddChange ==
  /\ \E n \in TopicNames, i \in Timestamps, cc \in InputChanges :
       /\ HasTopic(n) => (TotalChanges < MaxChanges \/ i \in Keys(topic_caches[n].changes))
       /\ to_topic_add_change(n, i, cc)
  /\ UNCHANGED <<discVars, appVars>>

GetChange ==
  /\ \E n \in TopicNames, i \in Timestamps : from_topic_get_change(n, i)
  /\ UNCHANGED <<discVars, appVars>>

GetChangesInRange ==
  /\ \E n \in TopicNames, a \in Timestamps, b \in Timestamps :
       from_topic_get_changes_in_range(n, a, b)
  /\ UNCHANGED <<discVars, appVars>>

GetAllChanges ==
  /\ \E n \in TopicNames : from_topic_get_all_changes(n)
  /\ UNCHANGED <<discVars, appVars>>

SetChangeToNotAliveDisposed ==
  /\ \E n \in TopicNames, i \in Timestamps : from_topic_set_change_to_not_alive_disposed(n, i)
  /\ UNCHANGED <<discVars, appVars>>

RemoveChange ==
  /\ \E n \in TopicNames, i \in Timestamps : from_topic_remove_change(n, i)
  /\ UNCHANGED <<discVars, appVars>>

(***************************************************************************)
(* DataSample                                                              *)
(***************************************************************************)
\* the keys and payloads of the samples, and the writers that send them
SampleKeys == {"k1", "k2", "k3"}
SampleBodies == {"red", "green", "blue"}
Payloads == {[key |-> k, body |-> b] : k \in SampleKeys, b \in SampleBodies}
SampleWriters == {"GUID_UNKNOWN", "writer_A", "writer_B"}

\* the SampleInfo both constructors fill in, but for the instance state
SampleInfo(instance_state, source_timestamp, writer_guid) ==
  [sample_state |-> "NotRead", view_state |-> "New", instance_state |-> instance_state,
   disposed_generation_count |-> 0, no_writers_generation_count |-> 0,
   sample_rank |-> 0, generation_rank |-> 0, absolute_generation_rank |-> 0,
   source_timestamp |-> source_timestamp, publication_handle |-> writer_guid]

\* DataSample::new: value is Ok(payload)
DataSample_new(source_timestamp, payload, writer_guid) ==
  [sample_info |-> SampleInfo("Alive", source_timestamp, writer_guid),
   value |-> [tag |-> "Ok", v |-> payload]]

\* DataSample::new_disposed as a bug would have it: the instance state is
\* the one of DataSample::new
DataSample_new_disposed_Alive(source_timestamp, key, writer_guid) ==
  [sample_info |-> SampleInfo("Alive", source_timestamp, writer_guid),
   value |-> [tag |-> "Err", v |-> key]]

\* DataSample::new_disposed: value is Err(key)
DataSample_new_disposed(source_timestamp, key, writer_guid) ==
  [sample_info |-> SampleInfo("NotAlive_Disposed", source_timestamp, writer_guid),
   value |-> [tag |-> "Err", v |-> key]]

\* DataSample::get_key: the key of the payload, or the key carried
DataSample_get_key(sample) ==
  IF sample.value.tag = "Ok" THEN sample.value.v.key ELSE sample.value.v

\* IDataSample::get_value
DataSample_get_value(sample) ==
  IF sample.value.tag = "Ok" THEN <<sample.value.v>> ELSE <<>>

\* IDataSample::get_sample_info
DataSample_get_sample_info(sample) == sample.sample_info

\* a sample is built from data
BuildSample ==
  /\ \E ts \in Timestamps, payload \in Payloads, g \in SampleWriters :
       ds' = [op |-> "new", ts |-> ts, arg |-> <<payload>>, guid |-> g,
              sample |-> <<DataSample_new(ts, payload, g)>>]
  /\ UNCHANGED <<topic_caches, ret, attached, threadVars, consumer, announced, discVars>>

\* a sample is built for a disposal
BuildDisposedSample ==
  /\ \E ts \in Timestamps, key \in SampleKeys, g \in SampleWriters :
       ds' = [op |-> "new_disposed", ts |-> ts, arg |-> <<key>>, guid |-> g,
              sample |-> <<DataSample_new_disposed(ts, key, g)>>]
  /\ UNCHANGED <<topic_caches, ret, attached, threadVars, consumer, announced, discVars>>

\* the endpoints an application can have on a topic
EndpointKinds == {"reader", "writer"}

\* the application creates a reader or a writer on a topic of the cache
CreateEndpoint ==
  /\ \E e \in EndpointKinds, n \in DOMAIN topic_caches :
       /\ <<e, n>> \notin attached
       /\ attached' = attached \cup {<<e, n>>}
  /\ UNCHANGED <<topic_caches, ret, ds, threadVars, consumer, announced, discVars>>

\* the application drops a reader or a writer
DropEndpoint ==
  /\ \E u \in attached : attached' = attached \ {u}
  /\ UNCHANGED <<topic_caches, ret, ds, threadVars, consumer, announced, discVars>>

(***************************************************************************)
(* The cache shared by threads behind Arc<RwLock<DDSCache>>                *)
(***************************************************************************)
\* tests::create_dds_cache: the main thread and the thread it spawns
Threads == {"main", "spawned"}

\* cache.write().unwrap(): the write guard is given when nobody holds it
ThreadLock ==
  /\ lock = "none"
  /\ \E t \in Threads : lock' = t
  /\ UNCHANGED <<topic_caches, ret, attached, ds, added, consumer, announced, discVars>>

\* .to_topic_add_change(topic, &DDSTimestamp::now(), change) under the write
\* guard, with a timestamp no earlier call has used; the guard is dropped at
\* the end of the statement
ThreadAddChange ==
  /\ lock \in Threads
  /\ \E n \in DOMAIN topic_caches, i \in Timestamps, cc \in InputChanges :
       /\ \A u \in added : ~(u[1] = n /\ u[2] = i)
       /\ to_topic_add_change(n, i, cc)
       /\ added' = added \cup {<<n, i, lock>>}
  /\ lock' = "none"
  /\ UNCHANGED <<attached, ds, consumer, announced, discVars>>

\* cache.read().unwrap().from_topic_get_changes_in_range(topic, start, end):
\* the read guard is given when no thread holds the write guard
ThreadGetChangesInRange ==
  /\ lock = "none"
  /\ \E n \in TopicNames, a \in {0 - 1, 0}, b \in Timestamps :
       from_topic_get_changes_in_range(n, a, b)
  /\ UNCHANGED <<discVars, appVars>>

Init == CacheInit /\ DiscInit

CacheNext ==
  \/ AddTopic
  \/ RemoveTopic
  \/ AddChange
  \/ GetChange
  \/ GetChangesInRange
  \/ GetAllChanges
  \/ SetChangeToNotAliveDisposed
  \/ RemoveChange

\* the sample cache under every sequence of calls
SpecCache == Init /\ [][CacheNext]_vars

\* the samples that can be built
SampleNext ==
  \/ BuildSample
  \/ BuildDisposedSample

SpecSample == Init /\ [][SampleNext]_vars

\* the topics of the cache with the endpoints that use them
TopicUseNext ==
  \/ AddTopic
  \/ RemoveTopic
  \/ AddChange
  \/ CreateEndpoint
  \/ DropEndpoint

SpecTopicUse == Init /\ [][TopicUseNext]_vars

\* the changes of two topics added, disposed of and removed
HistoryTopics == {"Square", "Circle"}

HistoryAddTopic ==
  /\ \E n \in HistoryTopics : add_new_topic(n, "WithKey", "ShapeType")
  /\ UNCHANGED <<discVars, appVars>>

\* the writer of a topic numbers its changes in the order of their timestamps
HistoryAddChange ==
  /\ \E n \in HistoryTopics, i \in Timestamps, g \in WriterGuids :
       /\ HasTopic(n) => (TotalChanges < MaxChanges \/ i \in Keys(topic_caches[n].changes))
       /\ to_topic_add_change(n, i, CacheChange(ALIVE, g, i + 1, <<"payload">>))
  /\ UNCHANGED <<discVars, appVars>>

HistorySetDisposed ==
  /\ \E n \in HistoryTopics, i \in Timestamps : from_topic_set_change_to_not_alive_disposed(n, i)
  /\ UNCHANGED <<discVars, appVars>>

HistoryRemoveChange ==
  /\ \E n \in HistoryTopics, i \in Timestamps : from_topic_remove_change(n, i)
  /\ UNCHANGED <<discVars, appVars>>

HistoryNext ==
  \/ HistoryAddTopic
  \/ HistoryAddChange
  \/ HistorySetDisposed
  \/ HistoryRemoveChange

SpecHistory == Init /\ [][HistoryNext]_vars

\* the cache written by two threads through the lock, nothing removed
ThreadsNext ==
  \/ AddTopic
  \/ ThreadLock
  \/ ThreadAddChange
  \/ ThreadGetChangesInRange

SpecThreads == Init /\ [][ThreadsNext]_vars

(***************************************************************************)
(* The discovery loop with its environment                                 *)
(***************************************************************************)
AppAddLocalWriter == AddLocalWriter({"user_writer_1"}, {<<>>})

\* the commands about the application's own endpoints
AppSendCommand ==
  SendCommand({c \in CommandInputs :
                 CmdGuid(c) \in {NoGuid, UserWriterGuid, UserReaderGuid}})

\* the command event, the application's commands and the notification channel
Next ==
  \/ StartupTail
  \/ HandleCommands
  \/ SendUnblocked
  \/ ConsumerRecv
  \/ AppSendCommand
  \/ AddLocalReader
  \/ AppAddLocalWriter

Spec == Init /\ [][Next]_vars

(***************************************************************************)
(* The command queue with any command the application can send            *)
(***************************************************************************)
\* any command, those that name the loop's own SEDP writers included; only
\* ASSERT_TOPIC_LIVELINESS is in the queue more than once. The application
\* sends before the loop's first command event, while the handler waits in a
\* send, and after the stop.
AnySendCommand ==
  /\ pc # "startup"
  /\ ev.token # "DISCOVERY_COMMAND" \/ draining \/ pc = "stopped"
  /\ SendCommand({c \in CommandInputs :
                   \/ c[1] = "ASSERT_TOPIC_LIVELINESS"
                   \/ \A i \in 1..Len(commands) : commands[i] # c})

OrderNext ==
  \/ StartupTail
  \/ HandleCommands
  \/ SendUnblocked
  \/ ConsumerRecv
  \/ AnySendCommand

SpecOrder == Init /\ [][OrderNext]_vars

(***************************************************************************)
(* The SPDP participant reader                                             *)
(***************************************************************************)
SpdpNext ==
  \/ StartupTail
  \/ HandleParticipantData
  \/ SpdpArrive
  \/ SendUnblocked
  \/ ConsumerRecv

SpecSpdp == Init /\ [][SpdpNext]_vars

\* the same with the scheduling the threads have: the loop goes on to poll and
\* handles an event that is ready, a blocked send returns once there is room,
\* and the data-path thread goes on receiving. Nothing obliges a remote
\* participant to send another sample.
SpecSpdpFair ==
  /\ Init
  /\ [][SpdpNext]_vars
  /\ WF_vars(StartupTail)
  /\ WF_vars(HandleParticipantData)
  /\ WF_vars(SendUnblocked)
  /\ WF_vars(ConsumerRecv)

(***************************************************************************)
(* The participant cleanup with remote participants and their endpoints    *)
(***************************************************************************)
\* remote participants that declare short leases: pB of 1 s, pC of 3 s
ShortLeaseSamples ==
  {SpdpData(GUID("pB", ENTITYID_PARTICIPANT), 1 * Sec),
   SpdpData(GUID("pC", ENTITYID_PARTICIPANT), 3 * Sec)}

\* the readers have nothing to take and the consumer has caught up
Quiet ==
  /\ spdp_inbox = <<>>
  /\ \A r \in DOMAIN sedp_inbox : sedp_inbox[r] = <<>>
  /\ chan = <<>>

\* the endpoints of the participants that are known
KnownEndpoints(guids) == {g \in guids : GUID(g[1], ENTITYID_PARTICIPANT) \in DOMAIN participants}

\* samples arrive one by one: the loop and the consumer keep up with them
ShortLeaseArrive == Quiet /\ SpdpArriveOf(ShortLeaseSamples)
SubscriptionArrive ==
  Quiet /\ SedpArrive("subscription", {SedpData(g) : g \in KnownEndpoints(RemoteReaderGuids)})
PublicationArrive ==
  Quiet /\ SedpArrive("publication", {SedpData(g) : g \in KnownEndpoints(RemoteWriterGuids)})

\* the cleanup timer is handled when it expires
CleanupTick == now < timers.participant_cleanup /\ Tick

CleanupNext ==
  \/ StartupTail
  \/ ShortLeaseArrive
  \/ HandleParticipantData
  \/ SubscriptionArrive
  \/ HandleSubscriptionReader
  \/ PublicationArrive
  \/ HandlePublicationReader
  \/ ParticipantCleanupEvent
  \/ CleanupTick
  \/ SendUnblocked
  \/ ConsumerRecv

SpecCleanup == Init /\ [][CleanupNext]_vars

(***************************************************************************)
(* The SEDP readers with data and dispose samples                          *)
(***************************************************************************)
\* samples arrive at one SEDP reader at a time, up to MaxInbox of them before
\* the loop takes them; the consumer has caught up
SedpSubscriptionArrive ==
  /\ chan = <<>>
  /\ sedp_inbox.publication = <<>>
  /\ SedpArrive("subscription", SubscriptionSamples)
SedpPublicationArrive ==
  /\ chan = <<>>
  /\ sedp_inbox.subscription = <<>>
  /\ SedpArrive("publication", PublicationSamples)

SedpNext ==
  \/ StartupTail
  \/ SedpSubscriptionArrive
  \/ HandleSubscriptionReader
  \/ SedpPublicationArrive
  \/ HandlePublicationReader
  \/ ConsumerRecv

SpecSedp == Init /\ [][SedpNext]_vars

(***************************************************************************)
(* The notification bus with a consumer that reads the DiscoveryDB         *)
(***************************************************************************)
\* the consumer takes a notification from the channel; to act on it it needs
\* the DiscoveryDB read guard
ConsumerReceive ==
  /\ consumer = "receiving"
  /\ chan # <<>>
  /\ chan' = Tail(chan)
  /\ consumer' = "handling"
  /\ UNCHANGED <<outbox, emitted, db_guard, send_guard>>
  /\ UNCHANGED <<pc, now, dbVars, liveliness_state, timers, inputVars, wire, ev>>
  /\ UNCHANGED <<topic_caches, ret, attached, ds, threadVars, announced>>
  /\ UNCHANGED <<scenarioVars, startVars, remoteVars>>

\* the consumer gets the read guard when the loop holds no guard, acts on the
\* notification and goes back to the channel
ConsumerHandle ==
  /\ consumer = "handling"
  /\ db_guard = "none"
  /\ consumer' = "receiving"
  /\ UNCHANGED <<topic_caches, ret, attached, ds, threadVars, announced, discVars>>

\* samples of remote readers and writers arrive while the loop runs
BusSubscriptionArrive ==
  /\ pc = "running"
  /\ SedpArrive("subscription", SubscriptionSamples)
BusPublicationArrive ==
  /\ pc = "running"
  /\ SedpArrive("publication", {SedpData(GUID("pB", "remote_writer"))})

BusNext ==
  \/ StartupTail
  \/ BusSubscriptionArrive
  \/ HandleSubscriptionReader
  \/ BusPublicationArrive
  \/ HandlePublicationReader
  \/ SendUnblocked
  \/ ConsumerReceive
  \/ ConsumerHandle

SpecBus == Init /\ [][BusNext]_vars

(***************************************************************************)
(* The info timers step by step, with the application adding endpoints     *)
(***************************************************************************)
\* read_readers_info, first statement: the flag is read under the read guard,
\* which is dropped at once. A flag that is not set ends the branch: the
\* timer is set again. ev keeps the readers the DiscoveryDB held at the read.
ReadersInfoRead ==
  /\ Polling
  /\ now >= timers.readers_info
  /\ pc' = IF readers_updated THEN "read_readers_info" ELSE pc
  /\ timers' = IF readers_updated THEN timers
               ELSE [timers EXCEPT !.readers_info = now + SEND_READERS_INFO_PERIOD]
  /\ ev' = Event("DISCOVERY_SEND_READERS_INFO", <<LocalReaderGuids(local_topic_readers)>>)
  /\ wire' = <<>>
  /\ emitted' = <<>>
  /\ UNCHANGED <<now, dbVars, liveliness_state, inputVars, chan, outbox, db_guard, send_guard>>
  /\ UNCHANGED <<cacheVars, scenarioVars, startVars, remoteVars>>

\* read_readers_info, second statement: the flag is cleared under the write
\* guard
ReadersInfoClear ==
  /\ pc = "read_readers_info"
  /\ db_guard = "none"
  /\ readers_updated' = FALSE
  /\ pc' = "write_readers_info"
  /\ UNCHANGED <<now, local_topic_readers, local_topic_writers, participants, writers_updated,
                 liveliness_state, timers, inputVars, notifVars, wire, ev>>
  /\ UNCHANGED <<cacheVars, scenarioVars, startVars, remoteVars>>

\* write_readers_info as a bug would have it: the readers written are the
\* ones the DiscoveryDB held when the flag was read
ReadersInfoWrite_Snapshot ==
  /\ pc = "write_readers_info"
  /\ \E fail \in FailChoices({<<"DCPSSubscription", UserReaderGuid>>}) :
       LET gr == [write_readers_info(fail) EXCEPT !.items = @ \cap ev.sample[1]]
       IN  /\ wire' = <<gr>>
           /\ announced' = [announced EXCEPT !.readers = @ \cup gr.items]
  /\ timers' = [timers EXCEPT !.readers_info = now + SEND_READERS_INFO_PERIOD]
  /\ pc' = "running"
  /\ UNCHANGED <<now, dbVars, liveliness_state, inputVars, notifVars, ev>>
  /\ UNCHANGED <<topic_caches, ret, attached, ds, threadVars, consumer>>
  /\ UNCHANGED <<scenarioVars, startVars, remoteVars>>

\* write_readers_info under a fresh read guard, and the timer is set again
ReadersInfoWrite ==
  /\ pc = "write_readers_info"
  /\ \E fail \in FailChoices({<<"DCPSSubscription", UserReaderGuid>>}) :
       LET gr == write_readers_info(fail)
       IN  /\ wire' = <<gr>>
           /\ announced' = [announced EXCEPT !.readers = @ \cup gr.items]
  /\ timers' = [timers EXCEPT !.readers_info = now + SEND_READERS_INFO_PERIOD]
  /\ pc' = "running"
  /\ UNCHANGED <<now, dbVars, liveliness_state, inputVars, notifVars, ev>>
  /\ UNCHANGED <<topic_caches, ret, attached, ds, threadVars, consumer>>
  /\ UNCHANGED <<scenarioVars, startVars, remoteVars>>

\* read_writers_info, first statement: the flag is read under the read guard,
\* which is dropped at once. A flag that is not set ends the branch: the
\* timer is set again. ev keeps the writers the DiscoveryDB held at the read.
WritersInfoRead ==
  /\ Polling
  /\ now >= timers.writers_info
  /\ pc' = IF writers_updated THEN "read_writers_info" ELSE pc
  /\ timers' = IF writers_updated THEN timers
               ELSE [timers EXCEPT !.writers_info = now + SEND_WRITERS_INFO_PERIOD]
  /\ ev' = Event("DISCOVERY_SEND_WRITERS_INFO", <<LocalWriterGuids(local_topic_writers)>>)
  /\ wire' = <<>>
  /\ emitted' = <<>>
  /\ UNCHANGED <<now, dbVars, liveliness_state, inputVars, chan, outbox, db_guard, send_guard>>
  /\ UNCHANGED <<cacheVars, scenarioVars, startVars, remoteVars>>

\* read_writers_info, second statement: the flag is cleared under the write
\* guard
WritersInfoClear ==
  /\ pc = "read_writers_info"
  /\ db_guard = "none"
  /\ writers_updated' = FALSE
  /\ pc' = "write_writers_info"
  /\ UNCHANGED <<now, local_topic_readers, local_topic_writers, participants, readers_updated,
                 liveliness_state, timers, inputVars, notifVars, wire, ev>>
  /\ UNCHANGED <<cacheVars, scenarioVars, startVars, remoteVars>>

\* write_writers_info under a fresh read guard, and the timer is set again
WritersInfoWrite ==
  /\ pc = "write_writers_info"
  /\ \E fail \in FailChoices({<<"DCPSPublication", UserWriterGuid>>}) :
       LET gr == write_writers_info(fail)
       IN  /\ wire' = <<gr>>
           /\ announced' = [announced EXCEPT !.writers = @ \cup gr.items]
  /\ timers' = [timers EXCEPT !.writers_info = now + SEND_WRITERS_INFO_PERIOD]
  /\ pc' = "running"
  /\ UNCHANGED <<now, dbVars, liveliness_state, inputVars, notifVars, ev>>
  /\ UNCHANGED <<topic_caches, ret, attached, ds, threadVars, consumer>>
  /\ UNCHANGED <<scenarioVars, startVars, remoteVars>>

\* the application threads add readers and writers at any time
RaceNext ==
  \/ StartupTail
  \/ ReadersInfoRead
  \/ ReadersInfoClear
  \/ ReadersInfoWrite
  \/ WritersInfoRead
  \/ WritersInfoClear
  \/ WritersInfoWrite
  \/ AddLocalReader
  \/ AppAddLocalWriter
  \/ Tick

SpecRace == Init /\ [][RaceNext]_vars

(***************************************************************************)
(* The teardown of the application's endpoints                             *)
(***************************************************************************)
\* the application creates its readers and writers before the loop runs and
\* never creates an endpoint with a GUID it has used before
EarlyAddLocalReader == pc = "startup" /\ AddLocalReader
EarlyAddLocalWriter == pc = "startup" /\ AddLocalWriter(UserWriterIds, {<<>>})

\* dropping an endpoint sends its REMOVE_LOCAL_* command, once; the
\* participant's teardown sends STOP_DISCOVERY, once
TeardownCommand ==
  /\ Quiet
  /\ SendCommand({c \in {STOP_DISCOVERY}
                         \cup {REMOVE_LOCAL_WRITER(g) : g \in LocalWriterGuids(local_topic_writers)
                                                             \cap {GUID(SelfPrefix, e) : e \in UserWriterIds}}
                         \cup {REMOVE_LOCAL_READER(g) : g \in LocalReaderGuids(local_topic_readers)
                                                             \cap {GUID(SelfPrefix, e) : e \in UserReaderIds}} :
                   \A i \in 1..Len(commands) : commands[i] # c})

\* a remote participant is discovered before the first command is sent, and
\* the loop and the consumer have handled it by then
TeardownArrive ==
  /\ now = 0
  /\ commands = <<>>
  /\ DOMAIN participants = {}
  /\ Quiet
  /\ SpdpArriveOf({SpdpData(GUID("pB", ENTITYID_PARTICIPANT), 3 * Sec)})

\* the clock runs up to the first publication of the local endpoints
TeardownTick == Quiet /\ now < SEND_WRITERS_INFO_PERIOD /\ Tick

TeardownNext ==
  \/ StartupTail
  \/ EarlyAddLocalReader
  \/ EarlyAddLocalWriter
  \/ TeardownArrive
  \/ HandleParticipantData
  \/ TeardownCommand
  \/ HandleCommands
  \/ SendReadersInfoEvent
  \/ SendWritersInfoEvent
  \/ TeardownTick
  \/ ConsumerRecv

SpecTeardown == Init /\ [][TeardownNext]_vars

(***************************************************************************)
(* The seven timers of the loop, and the ways the loop ends                *)
(***************************************************************************)
TimerHorizon == 21    \* seconds the timers run

\* the periods of the timers, by timer
Periods ==
  [participant_cleanup |-> PARTICIPANT_CLEANUP_PERIOD,
   participant_info |-> SEND_PARTICIPANT_INFO_PERIOD,
   readers_info |-> SEND_READERS_INFO_PERIOD,
   writers_info |-> SEND_WRITERS_INFO_PERIOD,
   topic_cleanup |-> TOPIC_CLEANUP_PERIOD,
   topic_info |-> SEND_TOPIC_INFO_PERIOD,
   participant_message |-> CHECK_PARTICIPANT_MESSAGES]

\* poll() returns when a timer expires: time passes while none is due
TimerTick ==
  /\ Polling
  /\ now < TimerHorizon * Sec
  /\ \A t \in DOMAIN timers : now < timers[t]
  /\ now' = now + Sec
  /\ UNCHANGED <<pc, dbVars, liveliness_state, timers, inputVars, notifVars, wire, ev>>
  /\ UNCHANGED <<cacheVars, scenarioVars, startVars, remoteVars>>

\* a sample arrives at the topic reader
TopicArrive == Quiet /\ SedpArrive("topic", TopicSamples)

\* the application drops the DomainParticipant: the weak reference of the
\* discovery thread no longer upgrades
DropParticipant ==
  /\ dp_alive
  /\ dp_alive' = FALSE
  /\ UNCHANGED <<pc, now, dbVars, liveliness_state, timers, inputVars, notifVars, wire, ev>>
  /\ UNCHANGED <<cacheVars, scenarioVars, startup, published, remoteVars>>

\* poll.poll returns Err: the error is logged and the loop returns
PollError ==
  /\ Polling
  /\ pc' = "stopped"
  /\ ev' = Event("POLL_ERROR", <<>>)
  /\ wire' = <<>>
  /\ emitted' = <<>>
  /\ UNCHANGED <<now, dbVars, liveliness_state, timers, inputVars, chan, outbox, db_guard, send_guard>>
  /\ UNCHANGED <<cacheVars, scenarioVars, startVars, remoteVars>>

TimersNext ==
  \/ StartupTail
  \/ ParticipantCleanupEvent
  \/ SendParticipantInfoEvent
  \/ SendReadersInfoEvent
  \/ SendWritersInfoEvent
  \/ TopicCleanupEvent
  \/ SendTopicInfoEvent
  \/ LivelinessTimerEvent
  \/ TopicArrive
  \/ HandleTopicReader
  \/ TimerTick
  \/ DropParticipant
  \/ ConsumerRecv

SpecTimers == Init /\ [][TimersNext]_vars

(***************************************************************************)
(* The life of the loop: the startup, a command, a timer, a sample, and    *)
(* the ways the loop ends                                                  *)
(***************************************************************************)
\* the application stops the discovery
StopCommand == commands = <<>> /\ SendCommand({STOP_DISCOVERY})

LoopNext ==
  \/ StartupFails
  \/ StartupTail
  \/ StopCommand
  \/ HandleCommands
  \/ SendParticipantInfoEvent
  \/ TopicArrive
  \/ HandleTopicReader
  \/ Tick
  \/ DropParticipant
  \/ PollError
  \/ ConsumerRecv

SpecLoop == Init /\ [][LoopNext]_vars

(***************************************************************************)
(* The timers that publish the local endpoints                             *)
(***************************************************************************)
InfoNext ==
  \/ StartupTail
  \/ SendReadersInfoEvent
  \/ SendWritersInfoEvent
  \/ AddLocalReader
  \/ AppAddLocalWriter
  \/ Tick

SpecInfo == Init /\ [][InfoNext]_vars

(***************************************************************************)
(* The liveliness timer with writers of every liveliness kind              *)
(***************************************************************************)
LiveAddLocalWriter == AddLocalWriter(UserWriterIds, LivelinessChoices)

\* the application sends REFRESH_LAST_MANUAL_LIVELINESS
RefreshCommand ==
  /\ Len(commands) < MaxCmds
  /\ commands' = Append(commands, REFRESH_LAST_MANUAL_LIVELINESS)
  /\ UNCHANGED <<pc, now, dbVars, liveliness_state, timers, draining, spdp_inbox,
                 spdp_ready, notifVars, wire, ev>>
  /\ UNCHANGED <<cacheVars, scenarioVars, startVars, remoteVars>>

LiveNext ==
  \/ StartupTail
  \/ HandleCommands
  \/ LivelinessTimerEvent
  \/ RefreshCommand
  \/ LiveAddLocalWriter
  \/ Tick

SpecLive == Init /\ [][LiveNext]_vars

(***************************************************************************)
(* Scenario S6: one ManualByParticipant writer with a lease of 3 s, the    *)
(* application refreshes every second, and the loop handles every event    *)
(* at the instant it becomes due.                                          *)
(***************************************************************************)
S6Horizon == 10       \* seconds the scenario runs
S6Lease == 3          \* seconds of lease of the writer

S6Init ==
  /\ CacheInit
  /\ DiscInitWith({WriterData(UserWriterGuid,
                              <<Liveliness("ManualByParticipant", S6Lease * Sec)>>)})

\* the application's refresh, once a second
S6Refresh ==
  /\ pc = "running"
  /\ now = next_refresh
  /\ commands' = Append(commands, REFRESH_LAST_MANUAL_LIVELINESS)
  /\ next_refresh' = now + Sec
  /\ UNCHANGED <<pc, now, dbVars, liveliness_state, timers, draining, spdp_inbox,
                 spdp_ready, manual_sent, notifVars, wire, ev>>
  /\ UNCHANGED <<cacheVars, startVars, remoteVars>>

\* the application starts refreshing within the first second
S6Wait ==
  /\ pc = "startup"
  /\ next_refresh < Sec - 1
  /\ next_refresh' = next_refresh + 1
  /\ UNCHANGED <<pc, now, dbVars, liveliness_state, timers, inputVars, manual_sent,
                 notifVars, wire, ev>>
  /\ UNCHANGED <<cacheVars, startVars, remoteVars>>

\* time passes when nothing is due
S6Tick ==
  /\ pc = "running"
  /\ now < S6Horizon * Sec
  /\ now < timers.participant_message
  /\ now < next_refresh
  /\ commands = <<>>
  /\ now' = now + 1
  /\ UNCHANGED <<pc, dbVars, liveliness_state, timers, inputVars, scenarioVars,
                 notifVars, wire, ev>>
  /\ UNCHANGED <<cacheVars, startVars, remoteVars>>

S6Next ==
  \/ StartupTail
  \/ S6Wait
  \/ S6Refresh
  \/ HandleCommands
  \/ LivelinessTimerEvent
  \/ S6Tick

SpecS6 == S6Init /\ [][S6Next]_vars

(***************************************************************************)
(* Properties of the sample cache                                          *)
(***************************************************************************)
Entries(m) == {m[i] : i \in 1..Len(m)}

RECURSIVE AscendingSeq(_)
AscendingSeq(S) ==
  IF S = {} THEN <<>>
  ELSE LET m == CHOOSE e \in S : \A f \in S : e[1] <= f[1]
       IN  <<m>> \o AscendingSeq(S \ {m})

\* C1: for every topic and all timestamps a, b, get_changes_in_range(t, a, b)
\* completes and returns exactly the stored changes with a < ts <= b in
\* ascending timestamp order, and the empty sequence for an unknown topic.
C1_RangeHalfOpen ==
  ret.op = "get_changes_in_range" =>
    /\ ~ret.panic
    /\ ret.val = IF HasTopic(ret.topic)
                   THEN AscendingSeq({e \in Entries(topic_caches[ret.topic].changes) :
                                        ret.a < e[1] /\ e[1] <= ret.b})
                   ELSE <<>>

UniqueTimestamps ==
  \A t \in DOMAIN topic_caches :
    \A i, j \in 1..Len(topic_caches[t].changes) :
      i # j => topic_caches[t].changes[i][1] # topic_caches[t].changes[j][1]

\* C2: every topic cache holds at most one change per timestamp, and an
\* add_change at a timestamp the topic already holds panics.
C2_UniqueInsertion ==
  /\ []UniqueTimestamps
  /\ [][(/\ ret'.op = "add_change"
         /\ HasTopic(ret'.topic)
         /\ ret'.a \in Keys(topic_caches[ret'.topic].changes))
        => ret'.panic]_vars

\* an add_change at a timestamp that was there has panicked and the topic
\* still holds one change at that timestamp
C2_Witness ==
  /\ ret.op = "add_change"
  /\ ret.panic
  /\ HasTopic(ret.topic)
  /\ ret.a \in Keys(topic_caches[ret.topic].changes)
  /\ Len(topic_caches[ret.topic].changes) = 2

\* C3: add_new_topic on a name that is there returns false and leaves the
\* whole cache as it was (kind, type, QoS and changes of the first record);
\* on a new name it returns true and creates an empty topic cache, the other
\* topics untouched.
C3_AddTopicIdempotent ==
  [][ret'.op = "add_new_topic" =>
       LET n == ret'.topic
       IN  IF HasTopic(n)
             THEN ~ret'.ok /\ topic_caches' = topic_caches
             ELSE /\ ret'.ok
                  /\ DOMAIN topic_caches' = DOMAIN topic_caches \cup {n}
                  /\ topic_caches'[n] = NewTopicCache(ret'.val[1], ret'.val[2])
                  /\ topic_caches'[n].changes = <<>>
                  /\ \A t \in DOMAIN topic_caches : topic_caches'[t] = topic_caches[t]]_vars

\* a second add_new_topic with another kind and type was refused on a topic
\* that holds changes
C3_Witness ==
  /\ ret.op = "add_new_topic"
  /\ ~ret.ok
  /\ HasTopic(ret.topic)
  /\ topic_caches[ret.topic].changes # <<>>
  /\ topic_caches[ret.topic].topic_kind # ret.val[1]
  /\ topic_caches[ret.topic].topic_data_type # ret.val[2]

\* C4: in every topic, the changes of one writer GUID taken in ascending
\* timestamp order have strictly increasing sequence numbers.
C4_SequenceMonotonic ==
  \A t \in DOMAIN topic_caches :
    LET m == topic_caches[t].changes
    IN  \A i, j \in 1..Len(m) :
          (i < j /\ m[i][2].writer_guid = m[j][2].writer_guid)
            => m[i][2].sequence_number < m[j][2].sequence_number

(***************************************************************************)
(* Properties of the discovery loop                                        *)
(***************************************************************************)
BuiltinReaderGuids == {GUID(SelfPrefix, e) : e \in BuiltinReaderIds}
BuiltinWriterGuids == {GUID(SelfPrefix, e) : e \in BuiltinWriterIds}

\* the step is a run of write_readers_info / write_writers_info: the startup
\* tail or an info timer event
PublishStep ==
  \/ pc = "startup" /\ pc' = "running"
  \/ timers'.readers_info # timers.readers_info
  \/ timers'.writers_info # timers.writers_info

\* C5: what write_readers_info writes is exactly the local readers that have
\* a GUID and are none of the five built-in readers; the same for
\* write_writers_info and the five built-in writers.
C5_SelfExclusion ==
  [][PublishStep =>
       \A i \in 1..Len(wire') :
         /\ (wire'[i].writer = "DCPSSubscription" /\ wire'[i].op = "write") =>
              /\ wire'[i].items \cap BuiltinReaderGuids = {}
              /\ wire'[i].items =
                   {d.remote_reader_guid[1] :
                      d \in {p \in local_topic_readers :
                               /\ p.remote_reader_guid # <<>>
                               /\ p.remote_reader_guid[1] \notin BuiltinReaderGuids}}
         /\ (wire'[i].writer = "DCPSPublication" /\ wire'[i].op = "write") =>
              /\ wire'[i].items \cap BuiltinWriterGuids = {}
              /\ wire'[i].items =
                   {d.remote_writer_guid[1] :
                      d \in {p \in local_topic_writers :
                               /\ p.remote_writer_guid # <<>>
                               /\ p.remote_writer_guid[1] \notin BuiltinWriterGuids}}]_vars

\* the user reader and the user writer were written while all ten built-in
\* endpoints were local endpoints of the DiscoveryDB
C5_Witness ==
  /\ BuiltinReaders \subseteq local_topic_readers
  /\ BuiltinWriters \subseteq local_topic_writers
  /\ \E i \in 1..Len(wire) :
       /\ wire[i].writer = "DCPSSubscription" /\ wire[i].op = "write"
       /\ wire[i].items = {UserReaderGuid}
  /\ \E i \in 1..Len(wire) :
       /\ wire[i].writer = "DCPSPublication" /\ wire[i].op = "write"
       /\ wire[i].items = {UserWriterGuid}

LivelinessTickStep == timers'.participant_message # timers.participant_message

Written(w, msg) == \E i \in 1..Len(w) : msg \in w[i].items

\* C6: on a liveliness-timer tick an AUTOMATIC_LIVELINESS_UPDATE is written
\* iff some local writer has Automatic liveliness and
\* (now - last_auto_update) > min_automatic_lease / 3.
C6_AutomaticPacing ==
  [][LivelinessTickStep =>
       (Written(wire', AutoMessage) <=>
          LivelinessDue_ThirdOfLease(now, liveliness_state.last_auto_update,
                                     LeasesOf(local_topic_writers, "Automatic")))]_vars

\* C7: on a liveliness-timer tick a MANUAL_LIVELINESS_UPDATE is written iff
\* some local writer has ManualByParticipant liveliness and
\* (now - last_manual_participant_update) > min_manual_by_participant_lease / 3.
C7_ManualPacing ==
  [][LivelinessTickStep =>
       (Written(wire', ManualMessage) <=>
          LivelinessDue_ThirdOfLease(now, liveliness_state.last_manual_participant_update,
                                     LeasesOf(local_topic_writers, "ManualByParticipant")))]_vars

\* C8: in scenario S6 at least three MANUAL_LIVELINESS_UPDATE samples have
\* been written when 10 s have passed.
C8_ThreeManualUpdates ==
  (now = S6Horizon * Sec /\ commands = <<>> /\ now < timers.participant_message)
    => manual_sent >= 3

\* C9: STOP_DISCOVERY disposes every local reader on the subscription topic,
\* then every local writer on the publication topic, then the participant,
\* whatever dispose fails, and the loop has returned only after that; no
\* participant dispose comes earlier.
C9_StopDisposes ==
  [][(pc = "running" /\ pc' = "stopped") =>
       LET n == Len(wire')
       IN  /\ n >= 3
           /\ wire'[n - 2].writer = "DCPSSubscription" /\ wire'[n - 2].op = "dispose"
           /\ wire'[n - 2].items = LocalReaderGuids(local_topic_readers')
           /\ wire'[n - 1].writer = "DCPSPublication" /\ wire'[n - 1].op = "dispose"
           /\ wire'[n - 1].items = LocalWriterGuids(local_topic_writers')
           /\ wire'[n].writer = "DCPSParticipant" /\ wire'[n].op = "dispose"
           /\ wire'[n].items = {ParticipantGuid}
           /\ \A i \in 1..(n - 1) : wire'[i].writer # "DCPSParticipant"]_vars

\* the loop has stopped after a dispose of a user reader failed and the
\* disposes of the writers and of the participant were made all the same
C9_Witness ==
  /\ pc = "stopped"
  /\ Len(wire) >= 3
  /\ wire[Len(wire) - 2].failed = {UserReaderGuid}
  /\ UserWriterGuid \in wire[Len(wire) - 1].items
  /\ wire[Len(wire)].items = {ParticipantGuid}

DisposalHandled(e) ==
  e.token = "DISCOVERY_PARTICIPANT_DATA" /\ e.sample # <<>> /\ e.sample[1].kind = "dispose"

\* C10: handling a disposal sample of the participant reader removes that
\* participant, adds or updates none, and sends exactly
\* WritersInfoUpdated{false} and then ReadersInfoUpdated.
C10_ParticipantDisposal ==
  /\ [][(spdp_ready /\ ~spdp_ready' /\ DisposalHandled(ev')) =>
          LET key == ev'.sample[1].guid
          IN  /\ participants' = [g \in DOMAIN participants \ {key} |-> participants[g]]
              /\ emitted' \o outbox' = <<WritersInfoUpdated(FALSE), ReadersInfoUpdated>>]_vars
  /\ []((DisposalHandled(ev) /\ outbox = <<>>) =>
          emitted = <<WritersInfoUpdated(FALSE), ReadersInfoUpdated>>)

\* the disposal of pB was handled while pC stays known, and both
\* notifications went out
C10_Witness ==
  /\ DisposalHandled(ev)
  /\ ev.sample[1].guid = GUID("pB", ENTITYID_PARTICIPANT)
  /\ DOMAIN participants = {GUID("pC", ENTITYID_PARTICIPANT)}
  /\ outbox = <<>>
  /\ emitted = <<WritersInfoUpdated(FALSE), ReadersInfoUpdated>>

(***************************************************************************)
(* Properties of the participant cleanup                                   *)
(***************************************************************************)
CleanupStep == timers'.participant_cleanup # timers.participant_cleanup

\* C11: a participant whose last_heard is older than its lease when
\* participant_cleanup runs is removed by that cleanup, and with it every
\* discovered reader and writer that has its GUID prefix.
C11_CleanupSoundness ==
  [][CleanupStep =>
       \A g \in DOMAIN participants :
         (now - last_heard[g] > participants[g]) =>
           /\ g \notin DOMAIN participants'
           /\ g \notin DOMAIN last_heard'
           /\ \A e \in remote_readers' \cup remote_writers' : e[1] # g[1]]_vars

\* a cleanup has removed pB and its endpoints, while pC, heard in time, is
\* known with its reader and its writer
C11_Witness ==
  /\ ev.token = "DISCOVERY_PARTICIPANT_CLEANUP"
  /\ DOMAIN participants = {GUID("pC", ENTITYID_PARTICIPANT)}
  /\ remote_readers = {GUID("pC", "remote_reader")}
  /\ remote_writers = {GUID("pC", "remote_writer")}
  /\ now - last_heard[GUID("pC", ENTITYID_PARTICIPANT)] = 1 * Sec

Sent(ns, type) == \E i \in 1..Len(ns) : ns[i][1] = type

\* C12: a cleanup that removes an expired participant sends at least one
\* WritersInfoUpdated and at least one ReadersInfoUpdated.
C12_CleanupNotifies ==
  [][(CleanupStep /\ DOMAIN participants' # DOMAIN participants) =>
       /\ Sent(emitted' \o outbox', "WritersInfoUpdated")
       /\ Sent(emitted' \o outbox', "ReadersInfoUpdated")]_vars


(***************************************************************************)
(* The participant-info timer                                              *)
(***************************************************************************)
\* C13: every SPDP record the participant-info timer publishes carries a
\* lease of three send periods, 6 s, which is more than the 4 s between two
\* announcements when one announcement in between is missed
C13_LeaseThreePeriods ==
  published # <<>> =>
    /\ published[1].lease = 3 * SEND_PARTICIPANT_INFO_PERIOD
    /\ published[1].lease = 6 * Sec
    /\ published[1].lease > 2 * SEND_PARTICIPANT_INFO_PERIOD

\* the timer has published the record of the participant
C13_Witness ==
  /\ ev.token = "DISCOVERY_SEND_PARTICIPANT_INFO"
  /\ published = <<SpdpData(ParticipantGuid, 6 * Sec)>>
  /\ Len(wire) = 1 /\ wire[1].failed = {}
  /\ now >= 2 * SEND_PARTICIPANT_INFO_PERIOD

(***************************************************************************)
(* The startup                                                             *)
(***************************************************************************)
Occurs(step) == \E i \in 1..Len(startup) : startup[i] = step
Before(a, b) ==
  \E i \in 1..Len(startup), j \in 1..Len(startup) : i < j /\ startup[i] = a /\ startup[j] = b

\* C14: in a startup that sends Ok, the participant-reader proxy is seeded
\* first, then WritersInfoUpdated{true} is sent (and is the one notification
\* of the startup), then Ok is sent; and the loop has handled no command,
\* timer or sample unless Ok was sent before
C14_StartupOrder ==
  /\ Occurs("send Ok") =>
       /\ Before("initialize_participant_reader_proxy", "send WritersInfoUpdated{true}")
       /\ Before("send WritersInfoUpdated{true}", "send Ok")
       /\ startup[Len(startup)] = "send Ok"
  /\ (ev.token = "STARTUP" /\ outbox = <<>>) => emitted = <<WritersInfoUpdated(TRUE)>>
  /\ ev.token \notin {"none", "STARTUP"} => Occurs("send Ok")
  /\ pc \in {"running", "stopped"} => Occurs("send Ok")

\* after a startup that sent Ok the loop has taken a sample of the topic reader
C14_Witness ==
  /\ Occurs("send Ok")
  /\ pc = "running"
  /\ ev.token = "DISCOVERY_TOPIC_DATA"
  /\ topics = {"Square"}

\* the results the startup has sent on the startup channel
StartupResults == {i \in 1..Len(startup) : startup[i] \in {"send Ok", "send Err"}}

\* C15: once the startup is over exactly one result has been sent; it is
\* Err exactly when a step of the startup failed, and then the loop was never
\* entered; the loop runs only after Ok
C15_OneStartupResult ==
  /\ pc # "startup" => Cardinality(StartupResults) = 1
  /\ pc = "startup" => StartupResults = {}
  /\ Occurs("send Err") <=> (\E i \in 1..Len(startup) : startup[i] \in StartupSteps)
  /\ Occurs("send Err") => (pc = "failed" /\ ev.token = "none")
  /\ pc \in {"running", "stopped"} => (Occurs("send Ok") /\ ~Occurs("send Err"))

\* the creation of the publisher has failed
C15_Witness ==
  /\ startup = <<"create_publisher", "send Err">>
  /\ pc = "failed"
  /\ ev.token = "none"

(***************************************************************************)
(* The end of the loop                                                     *)
(***************************************************************************)
\* C16: once the loop runs it returns only by processing STOP_DISCOVERY: a
\* step that ends the loop is the command event, and it makes the disposes
\* of the STOP branch
C16_ExitOnlyOnStop ==
  [][(pc = "running" /\ pc' = "stopped") =>
       /\ ev'.token = "DISCOVERY_COMMAND"
       /\ \E i \in 1..Len(wire') :
            wire'[i].writer = "DCPSParticipant" /\ wire'[i].op = "dispose"]_vars

(***************************************************************************)
(* The notification channel and the locks                                  *)
(***************************************************************************)
\* C17: sending a notification never blocks the loop: no notification of a
\* handler is ever left waiting for room in the channel while the loop
\* stands still in send
C17_SendNeverBlocks == outbox = <<>>

\* C18: no DiscoveryDB guard is held when a notification is sent, nor while
\* the loop waits in a blocked send or in poll
C18_NoGuardAcrossSend ==
  /\ send_guard = "none"
  /\ db_guard = "none"

\* C19: every write or dispose on a built-in writer, which takes the
\* DDSCache lock, is made with no DiscoveryDB guard alive
C19_NoCacheUnderDbGuard ==
  \A i \in 1..Len(wire) : wire[i].items # {} => wire[i].guard = "none"

(***************************************************************************)
(* The timers                                                              *)
(***************************************************************************)
\* the token of each timer
TimerTokens ==
  [participant_cleanup |-> "DISCOVERY_PARTICIPANT_CLEANUP",
   participant_info |-> "DISCOVERY_SEND_PARTICIPANT_INFO",
   readers_info |-> "DISCOVERY_SEND_READERS_INFO",
   writers_info |-> "DISCOVERY_SEND_WRITERS_INFO",
   topic_cleanup |-> "DISCOVERY_TOPIC_CLEANUP",
   topic_info |-> "DISCOVERY_SEND_TOPIC_INFO",
   participant_message |-> "DISCOVERY_PARTICIPANT_MESSAGE_TIMER"]

\* the step is the loop handling the expiry of timer t
TimerHandled(t) ==
  /\ pc = "running"
  /\ ev'.token = TimerTokens[t]
  /\ now' = now /\ chan' = chan /\ sedp_inbox' = sedp_inbox /\ dp_alive' = dp_alive

\* C20: each time the expiry of one of the seven timers is handled and the
\* loop keeps running, that timer is set to expire after its own period and
\* the other six are left as they were; so no timer is left expired
C20_TimersRearmed ==
  [][\A t \in DOMAIN Periods :
       (TimerHandled(t) /\ pc' = "running") =>
         /\ timers' = [timers EXCEPT ![t] = now + Periods[t]]
         /\ timers'[t] > now]_vars

\* at 20 s all seven timers have expired, the topic-info timer for the first
\* time, and all have been handled
C20_Witness ==
  /\ pc = "running"
  /\ now = 20 * Sec
  /\ ev.token = "DISCOVERY_SEND_TOPIC_INFO"
  /\ timers.topic_info = 2 * SEND_TOPIC_INFO_PERIOD
  /\ timers.topic_cleanup = 3 * TOPIC_CLEANUP_PERIOD
  /\ \A t \in DOMAIN timers : timers[t] > now

(***************************************************************************)
(* The notifications of the SEDP readers                                   *)
(***************************************************************************)
\* the step is the loop taking the samples of an SEDP reader, all of which
\* carry data
SedpDataHandled(reader) ==
  /\ pc = "running"
  /\ sedp_inbox[reader] # <<>>
  /\ sedp_inbox'[reader] = <<>>
  /\ \A i \in 1..Len(sedp_inbox[reader]) : sedp_inbox[reader][i].kind = "data"

\* the step is the loop taking a data sample of the SPDP reader
SpdpDataHandled ==
  /\ pc = "running"
  /\ spdp_inbox # <<>>
  /\ spdp_inbox' = Tail(spdp_inbox)
  /\ Head(spdp_inbox).kind = "data"

\* C21: a data sample that leaves the DiscoveryDB as it was produces no
\* notification, for the participant, subscription and publication readers
C21_Debounced ==
  [][/\ (SpdpDataHandled /\ participants' = participants) => emitted' \o outbox' = <<>>
     /\ (SedpDataHandled("subscription") /\ remote_readers' = remote_readers
           /\ topics' = topics) => emitted' \o outbox' = <<>>
     /\ (SedpDataHandled("publication") /\ remote_writers' = remote_writers
           /\ topics' = topics) => emitted' \o outbox' = <<>>]_vars

\* C22: handling DiscoveredReaderData sends ReadersInfoUpdated, and handling
\* DiscoveredWriterData sends WritersInfoUpdated
C22_NotificationKind ==
  [][/\ SedpDataHandled("subscription") => Sent(emitted' \o outbox', "ReadersInfoUpdated")
     /\ SedpDataHandled("publication") => Sent(emitted' \o outbox', "WritersInfoUpdated")]_vars

(***************************************************************************)
(* The readers-info and writers-info timers                                *)
(***************************************************************************)
ReadersInfoStep == timers'.readers_info # timers.readers_info
WritersInfoStep == timers'.writers_info # timers.writers_info

\* the local endpoints that are published
PublishedReaderGuids ==
  {d.remote_reader_guid[1] : d \in {p \in local_topic_readers : IsPublishedReader(p)}}
PublishedWriterGuids ==
  {d.remote_writer_guid[1] : d \in {p \in local_topic_writers : IsPublishedWriter(p)}}

\* C23: a readers-info tick with the readers-updated flag set writes every
\* published local reader on the subscription writer and clears the flag; a
\* tick with the flag clear writes nothing and leaves it clear; the
\* writers-info tick does the same with the writers-updated flag
C23_PublishIffUpdated ==
  [][/\ ReadersInfoStep =>
          /\ readers_updated =>
               /\ Len(wire') = 1
               /\ wire'[1].writer = "DCPSSubscription" /\ wire'[1].op = "write"
               /\ wire'[1].items = PublishedReaderGuids
          /\ ~readers_updated => wire' = <<>>
          /\ ~readers_updated'
          /\ writers_updated' = writers_updated
     /\ WritersInfoStep =>
          /\ writers_updated =>
               /\ Len(wire') = 1
               /\ wire'[1].writer = "DCPSPublication" /\ wire'[1].op = "write"
               /\ wire'[1].items = PublishedWriterGuids
          /\ ~writers_updated => wire' = <<>>
          /\ ~writers_updated'
          /\ readers_updated' = readers_updated]_vars

\* a tick with the flag clear while the application has a reader
C23_Witness ==
  /\ ev.token = "DISCOVERY_SEND_READERS_INFO"
  /\ now = 2 * SEND_READERS_INFO_PERIOD
  /\ timers.readers_info = 3 * SEND_READERS_INFO_PERIOD
  /\ UserReaderGuid \in PublishedReaderGuids
  /\ wire = <<>>
  /\ ~readers_updated

(***************************************************************************)
(* The two range queries of the history cache                              *)
(***************************************************************************)
\* C24: for every start <= end the two range queries of a topic's history
\* return the same changes, and neither returns a change stored at start
C24_RangeUniform ==
  \A n \in DOMAIN topic_caches :
    \A a \in Timestamps, b \in Timestamps :
      a <= b =>
        LET m == topic_caches[n].changes
        IN  /\ get_range_of_changes(m, a, b) = get_range_of_changes_vec(m, a, b)
            /\ a \notin Keys(get_range_of_changes(m, a, b))
            /\ a \notin Keys(get_range_of_changes_vec(m, a, b))

(***************************************************************************)
(* The topics of the cache and their endpoints                             *)
(***************************************************************************)
\* a live reader or writer uses topic n
InUse(n) == \E u \in attached : u[2] = n

\* C25: remove_topic on a topic that a live reader or writer still uses
\* leaves the topic cache and its changes in place
C25_RemoveOnlyUnused ==
  [][(ret'.op = "remove_topic" /\ attached' = attached /\ InUse(ret'.topic)) =>
       topic_caches' = topic_caches]_vars

(***************************************************************************)
(* DataSample                                                              *)
(***************************************************************************)
\* C26: a sample has a payload exactly when it was built from data; built
\* for a disposal it is NotAlive_Disposed, has no value, carries the key and
\* the GUID of the disposing writer; built from data it is Alive, NotRead,
\* New, has the payload and the GUID of the writing writer
C26_SampleShape ==
  ds.op # "none" =>
    LET sample == ds.sample[1]
        info == DataSample_get_sample_info(sample)
    IN  /\ (DataSample_get_value(sample) # <<>>) <=> (ds.op = "new")
        /\ ds.op = "new_disposed" =>
             /\ info.instance_state = "NotAlive_Disposed"
             /\ DataSample_get_value(sample) = <<>>
             /\ <<DataSample_get_key(sample)>> = ds.arg
             /\ info.publication_handle = ds.guid
        /\ ds.op = "new" =>
             /\ info.instance_state = "Alive"
             /\ info.sample_state = "NotRead"
             /\ info.view_state = "New"
             /\ DataSample_get_value(sample) = ds.arg
             /\ info.publication_handle = ds.guid

\* writer_A has disposed the instance of key k2
C26_Witness ==
  /\ ds.op = "new_disposed"
  /\ ds.arg = <<"k2">>
  /\ ds.guid = "writer_A"
  /\ DataSample_get_value(ds.sample[1]) = <<>>
  /\ DataSample_get_key(ds.sample[1]) = "k2"

\* C27: changes added to one topic by different threads through the lock,
\* each with its own timestamp, are all kept: the topic stores exactly the
\* timestamps that were added, and a range query whose interval covers them
\* all returns as many changes as add_change calls were made
AddedTo(n) == {u \in added : u[1] = n}

C27_AllRetained ==
  /\ \A n \in DOMAIN topic_caches :
       /\ Keys(topic_caches[n].changes) = {u[2] : u \in AddedTo(n)}
       /\ Len(topic_caches[n].changes) = Cardinality(AddedTo(n))
  /\ (/\ ret.op = "get_changes_in_range"
      /\ ret.a < 0
      /\ ret.b = MaxTs) => (/\ ~ret.panic
                            /\ Len(ret.val) = Cardinality(AddedTo(ret.topic)))

C27_Witness ==
  /\ ret.op = "get_changes_in_range"
  /\ ret.a < 0
  /\ ret.b = MaxTs
  /\ Len(ret.val) = MaxTs + 1
  /\ {u[3] : u \in AddedTo(ret.topic)} = Threads

(***************************************************************************)
(* The lifecycle of a remote endpoint                                      *)
(***************************************************************************)
\* the GUIDs whose last sample among the samples is of the kind
LastIs(samples, kind) ==
  {samples[i].guid : i \in {j \in 1..Len(samples) :
       /\ samples[j].kind = kind
       /\ \A k \in (j + 1)..Len(samples) : samples[k].guid # samples[j].guid}}

\* the step is the loop taking the samples of an SEDP reader
SedpHandled(reader) ==
  /\ pc = "running"
  /\ sedp_inbox[reader] # <<>>
  /\ sedp_inbox'[reader] = <<>>

\* C28: when the loop has handled the samples of the subscription or the
\* publication reader, an endpoint whose last sample was a dispose is not in
\* the DiscoveryDB, an endpoint whose last sample carried data is in it (also
\* when a dispose came before), the other endpoints are as before, and one
\* notification was sent for every sample
C28_EndpointLifecycle ==
  [][/\ SedpHandled("subscription") =>
          /\ LastIs(sedp_inbox.subscription, "dispose") \cap remote_readers' = {}
          /\ LastIs(sedp_inbox.subscription, "data") \subseteq remote_readers'
          /\ \A g \in RemoteReaderGuids :
               (\A i \in 1..Len(sedp_inbox.subscription) : sedp_inbox.subscription[i].guid # g)
                 => (g \in remote_readers' <=> g \in remote_readers)
          /\ Len(emitted' \o outbox') = Len(sedp_inbox.subscription)
     /\ SedpHandled("publication") =>
          /\ LastIs(sedp_inbox.publication, "dispose") \cap remote_writers' = {}
          /\ LastIs(sedp_inbox.publication, "data") \subseteq remote_writers'
          /\ \A g \in RemoteWriterGuids :
               (\A i \in 1..Len(sedp_inbox.publication) : sedp_inbox.publication[i].guid # g)
                 => (g \in remote_writers' <=> g \in remote_writers)
          /\ Len(emitted' \o outbox') = Len(sedp_inbox.publication)]_vars

\* a known reader was disposed of and came back with a later data sample
C28_Witness ==
  /\ ev.token = "DISCOVERY_READER_DATA"
  /\ \E g \in RemoteReaderGuids :
       /\ ev.sample = <<SedpDispose(g), SedpData(g)>>
       /\ g \in remote_readers
       /\ Len(emitted) = 2

(***************************************************************************)
(* The removal of a local endpoint                                         *)
(***************************************************************************)
\* the commands the loop takes in the step
TakenCommands == SubSeq(commands, 1, Len(commands) - Len(commands'))

\* the step is the loop handling the command event
CommandStep == pc = "running" /\ Len(commands') < Len(commands)

\* the endpoints whose REMOVE_LOCAL_* command the step takes
RemovedWriters ==
  {CmdGuid(TakenCommands[i]) :
     i \in {j \in 1..Len(TakenCommands) : TakenCommands[j][1] = "REMOVE_LOCAL_WRITER"}}
RemovedReaders ==
  {CmdGuid(TakenCommands[i]) :
     i \in {j \in 1..Len(TakenCommands) : TakenCommands[j][1] = "REMOVE_LOCAL_READER"}}

\* the call group is the dispose of g alone, made with no DiscoveryDB guard
DisposeOf(gr, topic, g) ==
  gr.writer = topic /\ gr.op = "dispose" /\ gr.items = {g} /\ gr.guard = "none"

\* C29: REMOVE_LOCAL_WRITER{guid} of an application writer disposes guid on
\* the publication topic and removes it from the local writers, every other
\* local endpoint and every remote record staying as it was; a removed
\* endpoint stays removed, and the writers-info publications and the STOP
\* disposes mention local writers of the DiscoveryDB only. The same holds
\* for REMOVE_LOCAL_READER with the subscription topic and the local readers.
C29_RemoveLocal ==
  [][/\ CommandStep =>
          /\ \A g \in RemovedWriters :
               /\ \E i \in 1..Len(wire') : DisposeOf(wire'[i], "DCPSPublication", g)
               /\ g \notin LocalWriterGuids(local_topic_writers')
          /\ \A g \in RemovedReaders :
               /\ \E i \in 1..Len(wire') : DisposeOf(wire'[i], "DCPSSubscription", g)
               /\ g \notin LocalReaderGuids(local_topic_readers')
          /\ local_topic_writers' =
               {d \in local_topic_writers : d.remote_writer_guid[1] \notin RemovedWriters}
          /\ local_topic_readers' =
               {d \in local_topic_readers : d.remote_reader_guid[1] \notin RemovedReaders}
          /\ UNCHANGED <<participants, remoteVars>>
     /\ pc = "running" =>
          /\ LocalWriterGuids(local_topic_writers') \subseteq LocalWriterGuids(local_topic_writers)
          /\ LocalReaderGuids(local_topic_readers') \subseteq LocalReaderGuids(local_topic_readers)
     /\ \A i \in 1..Len(wire') :
          wire'[i].guard # "none" =>
            /\ wire'[i].writer = "DCPSPublication" =>
                 wire'[i].items \subseteq LocalWriterGuids(local_topic_writers')
            /\ wire'[i].writer = "DCPSSubscription" =>
                 wire'[i].items \subseteq LocalReaderGuids(local_topic_readers')]_vars

\* the loop took REMOVE_LOCAL_WRITER of one application writer and then
\* STOP_DISCOVERY: the writer was disposed of once, by the removal, and the
\* STOP disposes mention the other writer and not this one; a remote
\* participant is known
C29_Witness ==
  /\ pc = "stopped"
  /\ Len(wire) = 4
  /\ DisposeOf(wire[1], "DCPSPublication", UserWriterGuid)
  /\ wire[3].writer = "DCPSPublication"
  /\ UserWriterGuid \notin wire[3].items
  /\ GUID(SelfPrefix, "user_writer_2") \in wire[3].items
  /\ UserReaderGuid \in wire[2].items
  /\ DOMAIN participants # {}

(***************************************************************************)
(* All the changes of a topic                                              *)
(***************************************************************************)
\* C30: get_all_changes(topic) completes and returns the changes stored in
\* the topic, each once, in strictly ascending timestamp order, whatever
\* calls added and removed them; for a topic the cache does not have it
\* returns the empty sequence
C30_AllChangesAscending ==
  ret.op = "get_all_changes" =>
    /\ ~ret.panic
    /\ IF HasTopic(ret.topic)
         THEN /\ \A i, j \in 1..Len(ret.val) : i < j => ret.val[i][1] < ret.val[j][1]
              /\ Entries(ret.val) = Entries(topic_caches[ret.topic].changes)
              /\ Len(ret.val) = Cardinality(Keys(topic_caches[ret.topic].changes))
         ELSE ret.val = <<>>

\* every timestamp of the model holds a change and all of them were returned
C30_Witness ==
  /\ ret.op = "get_all_changes"
  /\ HasTopic(ret.topic)
  /\ Keys(topic_caches[ret.topic].changes) = Timestamps
  /\ Len(ret.val) = MaxTs + 1

(***************************************************************************)
(* Disposing of a change and removing it                                   *)
(***************************************************************************)
\* the topics other than n are as they were
OtherTopicsKept(n) ==
  /\ DOMAIN topic_caches' = DOMAIN topic_caches
  /\ \A t \in DOMAIN topic_caches \ {n} : topic_caches'[t] = topic_caches[t]

\* C31: set_change_to_not_alive_disposed(topic, ts) on a stored change sets
\* the kind of that change to NOT_ALIVE_DISPOSED and nothing else: its key,
\* writer GUID, sequence number and payload, the other changes of the topic,
\* the topic's record and the other topics are as before; when the topic or
\* the timestamp is not there the call panics and the cache is as before
C31_DisposeInPlace ==
  [][ret'.op = "set_change_to_not_alive_disposed" =>
       LET n == ret'.topic
           i == ret'.a
       IN  IF HasTopic(n) /\ i \in Keys(topic_caches[n].changes)
             THEN LET old == topic_caches[n].changes
                      new == topic_caches'[n].changes
                  IN  /\ ~ret'.panic
                      /\ OtherTopicsKept(n)
                      /\ [topic_caches'[n] EXCEPT !.changes = old] = topic_caches[n]
                      /\ Len(new) = Len(old)
                      /\ \A k \in 1..Len(old) :
                           IF old[k][1] = i
                             THEN /\ new[k][1] = i
                                  /\ new[k][2].kind = NOT_ALIVE_DISPOSED
                                  /\ new[k][2].writer_guid = old[k][2].writer_guid
                                  /\ new[k][2].sequence_number = old[k][2].sequence_number
                                  /\ new[k][2].data_value = old[k][2].data_value
                             ELSE new[k] = old[k]
             ELSE ret'.panic /\ topic_caches' = topic_caches]_vars

\* a change was disposed of in a topic that holds a second, ALIVE change,
\* while the other topic holds a change as well
C31_Witness ==
  /\ ret.op = "set_change_to_not_alive_disposed"
  /\ ~ret.panic
  /\ HasTopic(ret.topic)
  /\ \E k \in 1..Len(topic_caches[ret.topic].changes) :
       /\ topic_caches[ret.topic].changes[k][1] # ret.a
       /\ topic_caches[ret.topic].changes[k][2].kind = ALIVE
  /\ \E t \in DOMAIN topic_caches \ {ret.topic} : topic_caches[t].changes # <<>>

C33_FailedAddKeeps ==
  [][(ret'.op = "add_change" /\ ret'.panic) => topic_caches' = topic_caches]_vars

(***************************************************************************)
(* The loop and the notification consumer                                  *)
(***************************************************************************)
\* the loop is blocked in send on the full channel with a DiscoveryDB guard
LoopBlockedWithGuard ==
  /\ outbox # <<>>
  /\ Len(chan) = NotifCap
  /\ db_guard # "none"

\* the consumer waits for the DiscoveryDB guard and receives nothing until
\* it has it
ConsumerBlockedOnGuard == consumer = "handling" /\ db_guard # "none"

\* C34: the loop is never blocked sending on the full channel with a
\* DiscoveryDB guard while the consumer waits for that guard
C34_NoDeadlock == ~(LoopBlockedWithGuard /\ ConsumerBlockedOnGuard)

(***************************************************************************)
(* Announcements and the check-then-clear of the info timers               *)
(***************************************************************************)
\* C35: a local reader of the DiscoveryDB that no readers-info tick has
\* written yet is written by the tick under way or has the readers-updated
\* flag set for a later tick, wherever the application's add falls between
\* the statements of the tick; the write of a tick covers every reader the
\* DiscoveryDB holds then. The same for the local writers.
C35_NoLostAnnouncement ==
  /\ [](/\ \A g \in PublishedReaderGuids :
             \/ g \in announced.readers
             \/ readers_updated
             \/ pc \in {"read_readers_info", "write_readers_info"}
        /\ \A g \in PublishedWriterGuids :
             \/ g \in announced.writers
             \/ writers_updated
             \/ pc \in {"read_writers_info", "write_writers_info"})
  /\ [][/\ (pc = "write_readers_info" /\ pc' = "running")
              => PublishedReaderGuids \subseteq announced'.readers
        /\ (pc = "write_writers_info" /\ pc' = "running")
              => PublishedWriterGuids \subseteq announced'.writers]_vars

\* a reader that was added after the flag had been read and before it was
\* cleared has been written by that tick
C35_Witness ==
  /\ pc = "running"
  /\ ev.token = "DISCOVERY_SEND_READERS_INFO"
  /\ ev.sample # <<>>
  /\ UserReaderGuid \notin ev.sample[1]
  /\ UserReaderGuid \in announced.readers
  /\ ~readers_updated

(***************************************************************************)
(* The samples of the SPDP participant reader                              *)
(***************************************************************************)
\* C36: every sample that arrived at the SPDP participant reader is
\* eventually taken and applied while the loop runs: the reader is served in
\* arrival order, so again and again the reader has nothing left, or the loop
\* has ended, or handle_participant_reader takes another sample.
C36_EverySampleApplied ==
  \/ []<>(spdp_inbox = <<>> \/ pc # "running")
  \/ []<><<HandleParticipantData>>_vars

(***************************************************************************)
(* The order of the commands                                               *)
(***************************************************************************)
\* the REMOVE_LOCAL_* commands of the step that are not skipped, as the
\* disposes they ask for, in the order they were sent
ExpectedDisposes ==
  LET rs == SelectSeq(TakenCommands,
                      LAMBDA c : \/ c[1] = "REMOVE_LOCAL_WRITER" /\ CmdGuid(c) # PublicationWriterGuid
                                 \/ c[1] = "REMOVE_LOCAL_READER" /\ CmdGuid(c) # SubscriptionWriterGuid)
  IN  [i \in 1..Len(rs) |->
         <<IF rs[i][1] = "REMOVE_LOCAL_WRITER" THEN "DCPSPublication" ELSE "DCPSSubscription",
           {CmdGuid(rs[i])}>>]

\* the disposes the step made for single endpoints, in the order of the calls
WrittenDisposes ==
  LET gs == SelectSeq(wire', LAMBDA gr : gr.op = "dispose" /\ gr.guard = "none")
  IN  [i \in 1..Len(gs) |-> <<gs[i].writer, gs[i].items>>]

\* C37: the command event takes the commands in the order they were sent,
\* and all of them unless one is STOP_DISCOVERY (a full notification channel
\* makes the handler wait in the middle and go on afterwards); STOP_DISCOVERY
\* is the last command the loop ever takes, the commands before it have been
\* taken by then, and once it has been handled the loop takes no command and
\* handles no event.
C37_CommandOrder ==
  [][/\ CommandStep =>
          /\ commands' = SubSeq(commands, Len(TakenCommands) + 1, Len(commands))
          /\ WrittenDisposes = ExpectedDisposes
          /\ \A i \in 1..(Len(TakenCommands) - 1) : TakenCommands[i] # STOP_DISCOVERY
          /\ (pc' = "stopped") = (TakenCommands[Len(TakenCommands)] = STOP_DISCOVERY)
          /\ pc' = "running" => commands' = <<>> \/ outbox' # <<>>
          /\ pc' = "stopped" =>
               /\ Len(wire') >= 3
               /\ SubSeq(wire', Len(wire') - 2, Len(wire')) \in
                    {StopDisposes(local_topic_readers', local_topic_writers', fail) :
                       fail \in FailChoices({<<"DCPSSubscription", UserReaderGuid>>,
                                             <<"DCPSPublication", UserWriterGuid>>,
                                             <<"DCPSParticipant", ParticipantGuid>>})}
     /\ pc = "stopped" =>
          /\ pc' = "stopped"
          /\ Len(commands') >= Len(commands)
          /\ SubSeq(commands', 1, Len(commands)) = commands
          /\ UNCHANGED <<participants, last_heard, remote_readers, remote_writers, topics,
                         liveliness_state, timers, wire, ev, outbox, emitted>>]_vars

\* STOP_DISCOVERY was handled in one command event with a REMOVE_LOCAL_*
\* command sent before it, and a command sent after it is still in the queue
C37_Witness ==
  /\ pc = "stopped"
  /\ Len(wire) >= 4
  /\ wire[1].op = "dispose" /\ wire[1].guard = "none"
  /\ commands # <<>>

(***************************************************************************)
(* REMOVE_LOCAL_* commands that name the loop's own SEDP writers           *)
(***************************************************************************)
\* the command names the GUID its branch skips
OwnRemove(c) ==
  \/ /\ c[1] = "REMOVE_LOCAL_WRITER"
     /\ CmdGuid(c) = GUID(SelfPrefix, "ENTITYID_SEDP_BUILTIN_PUBLICATIONS_WRITER")
  \/ /\ c[1] = "REMOVE_LOCAL_READER"
     /\ CmdGuid(c) = GUID(SelfPrefix, "ENTITYID_SEDP_BUILTIN_SUBSCRIPTIONS_WRITER")

\* C38: a REMOVE_LOCAL_WRITER of the GUID of the SEDP publications writer and
\* a REMOVE_LOCAL_READER of the GUID of the SEDP subscriptions writer are
\* skipped: no dispose of that GUID is made for them, the endpoint stays in
\* the DiscoveryDB, a step that takes only such commands writes nothing and
\* changes nothing of the DiscoveryDB, and the drain goes on with the
\* commands behind them.
C38_OwnWriterSkipped ==
  [][CommandStep =>
       /\ \A i \in 1..Len(TakenCommands) :
            OwnRemove(TakenCommands[i]) =>
              /\ \A k \in 1..Len(wire') :
                   wire'[k].guard = "none" => CmdGuid(TakenCommands[i]) \notin wire'[k].items
              /\ {d \in local_topic_writers : d.remote_writer_guid[1] = CmdGuid(TakenCommands[i])}
                   \subseteq local_topic_writers'
       /\ OwnRemove(TakenCommands[Len(TakenCommands)]) => commands' = <<>>
       /\ (\A i \in 1..Len(TakenCommands) : OwnRemove(TakenCommands[i])) =>
            /\ wire' = <<>>
            /\ emitted' = <<>>
            /\ UNCHANGED <<dbVars, liveliness_state, pc>>]_vars

\* the loop took two commands in one drain, went on running and sent no
\* notification: one command was the REMOVE_LOCAL_READER of the application
\* reader, whose dispose is the one call made, and the other was one that
\* names an SEDP writer of the loop, which is still in the DiscoveryDB
C38_Witness ==
  /\ pc = "running"
  /\ ev = Event("DISCOVERY_COMMAND", <<2>>)
  /\ emitted = <<>>
  /\ outbox = <<>>
  /\ Len(wire) = 1
  /\ DisposeOf(wire[1], "DCPSSubscription", UserReaderGuid)
  /\ {GUID(SelfPrefix, "ENTITYID_SEDP_BUILTIN_PUBLICATIONS_WRITER"),
      GUID(SelfPrefix, "ENTITYID_SEDP_BUILTIN_SUBSCRIPTIONS_WRITER")}
       \subseteq LocalWriterGuids(local_topic_writers)
  /\ commands = <<>>

(***************************************************************************)
(* The liveliness timestamps                                               *)
(***************************************************************************)
\* the step is a liveliness tick: the timer is set again
LivelinessTick == timers'.participant_message # timers.participant_message

\* the call group is a write of the message that returned Ok
WrittenOk(gr, msg) == gr.op = "write" /\ gr.items = {msg} /\ gr.failed = {}

\* the step takes a REFRESH_LAST_MANUAL_LIVELINESS command
RefreshTaken ==
  /\ CommandStep
  /\ \E i \in 1..Len(TakenCommands) : TakenCommands[i] = REFRESH_LAST_MANUAL_LIVELINESS

\* C39: a liveliness tick sets last_auto_update to its "now" exactly when it
\* wrote an AUTOMATIC_LIVELINESS_UPDATE with success and never changes
\* last_manual_participant_update, whatever it wrote; nothing else changes
\* last_auto_update, and last_manual_participant_update is set, to the time
\* of the handling, by the REFRESH_LAST_MANUAL_LIVELINESS command alone.
C39_LivelinessTimestamps ==
  [][/\ LivelinessTick =>
          /\ liveliness_state'.last_auto_update =
               IF \E i \in 1..Len(wire') : WrittenOk(wire'[i], AutoMessage)
                 THEN now
                 ELSE liveliness_state.last_auto_update
          /\ liveliness_state'.last_manual_participant_update =
               liveliness_state.last_manual_participant_update
     /\ ~LivelinessTick =>
          liveliness_state'.last_auto_update = liveliness_state.last_auto_update
     /\ RefreshTaken => liveliness_state'.last_manual_participant_update = now
     /\ ~RefreshTaken =>
          liveliness_state'.last_manual_participant_update =
            liveliness_state.last_manual_participant_update]_vars

\* a tick wrote both updates with success: last_auto_update is the time of
\* the tick, last_manual_participant_update is the older time it was
C39_Witness ==
  /\ ev.token = "DISCOVERY_PARTICIPANT_MESSAGE_TIMER"
  /\ Len(wire) = 2
  /\ WrittenOk(wire[1], AutoMessage)
  /\ WrittenOk(wire[2], ManualMessage)
  /\ liveliness_state.last_auto_update = now
  /\ liveliness_state.last_manual_participant_update < now

\* C40: whenever the ManualByParticipant condition holds at a liveliness
\* tick, the tick attempts the write of a MANUAL_LIVELINESS_UPDATE, whether
\* its automatic write returned Ok or Err, and the timer is set again.
C40_ManualAttempted ==
  [][LivelinessTick =>
       /\ LivelinessDue(now, liveliness_state.last_manual_participant_update,
                        LeasesOf(local_topic_writers, "ManualByParticipant"))
            => \E i \in 1..Len(wire') : wire'[i].op = "write" /\ wire'[i].items = {ManualMessage}
       /\ timers'.participant_message = now + CHECK_PARTICIPANT_MESSAGES]_vars
====
